---- MODULE Spec2Model ----
(***************************************************************************)
(* Model of the tama coding assistant: the LLM client (provider dispatch,  *)
(* OpenAI-compatible request with fallback, SSE stream reading), the       *)
(* conversation store, and the copilot orchestrator (decision parsing,     *)
(* phase handlers, filesystem/git tools, agent loop).                      *)
(*                                                                         *)
(* Each component has its own specification over the shared variables:     *)
(*   SpecLLM   one Client.SendMessageWithCallback call after another       *)
(*   SpecConv  the conversation history operations                         *)
(*   Spec      Copilot.ProcessPrompt / the agent loop over a workspace     *)
(*   SpecLoop  the agent loop over several prompts                         *)
(*   SpecCallback, SpecSession, FairSpecSession                            *)
(*             the streaming callback; overlapping ProcessPrompt calls     *)
(*   SpecParse the parsing of the decision text                            *)
(*   SpecGit   GitTool.Execute called on its own                           *)
(*   SpecAgent Agent.ExecuteTask, the tool-calling loop                    *)
(***************************************************************************)
EXTENDS Integers, Sequences, FiniteSets, TLC

VARIABLES
    \* ---- LLM client (internal/llm) ----
    backend,        \* the backend: arbitrary, or one deterministic output
    cpc,            \* position of the SendMessageWithCallback call
    provider,       \* config.Provider.Type of the configured provider
    streaming,      \* callback != nil
    requests,       \* HTTP requests issued by the call, in order
    body,           \* body of the response the call read (or "none")
    delivered,      \* fragments passed to the caller's callback, in order
    inner,          \* (text, err) returned by Client.Stream / Client.Complete
    ret,            \* (text, err) returned by SendMessageWithCallback
    last,           \* per mode, the outcome of the last call on a deterministic backend
    \* ---- conversation store (internal/llm/client.go) ----
    conversation,   \* Client.conversation
    sysCalls,       \* contents passed to AddSystemMessage so far, in order
    lastOp,         \* the last operation on the conversation
    convOps,        \* number of operations on the conversation so far
    convCalls,      \* the operations called on the conversation so far, in order
    \* ---- copilot (ProcessPrompt, worker goroutine, agent loop) ----
    impl,           \* which ProcessPrompt is built: "phased" or "single"
    mode,           \* "agent" (StartAgentMode) or "chat" (StartInteractiveChat)
    head,           \* git HEAD: file -> content
    index,          \* git index: file -> content
    work,           \* working tree: file -> content
    backups,        \* files under .tama/backups
    now,            \* the clock, in seconds
    apc,            \* position of the foreground loop
    wpc,            \* position of the worker goroutine of ProcessPrompt
    response,       \* the LLM's answer to the analysis prompt
    decision,       \* the Decision parsed from it
    phaseIdx,       \* index of the phase being processed
    changeIdx,      \* index of the change being applied
    trace,          \* tool executions and handler invocations of this ProcessPrompt
    failure,        \* the error that ended this ProcessPrompt, or "nil"
    snapshot,       \* file -> its content before this task first wrote it
    proposed,       \* the changes of the last decision, as the caller holds them
    task,           \* AgentState.CurrentTask.Status, or "none"
    completedTasks, \* AgentState.CompletedTasks
    prompts,        \* ProcessPrompt calls so far
    lastCmd,        \* the operator's last input, the case it took, its git operation's outcome
    \* ---- session: context, result stream, streaming callback ----
    ctxDone,        \* Copilot.ctx has been cancelled
    cbLog,          \* the calls of the streaming callback so far: chunk and outcome
    mu,             \* Copilot.mu: the ProcessPrompt call that holds it, or 0
    wk,             \* per ProcessPrompt call: position, phase, and whether it sent late
    reading,        \* per ProcessPrompt call: its caller still receives from respChan
    \* ---- decision parsing (getInitialDecision) ----
    text,           \* the answer to the analysis prompt, as text
    parsed,         \* the Decision parsed from text and the outcome of its validation
    \* ---- the tool-calling agent (internal/agent) ----
    agent           \* Agent.ExecuteTask: position, iteration, tool results, returned error

llmVars == <<backend, cpc, provider, streaming, requests, body, delivered, inner, ret, last>>
convVars == <<conversation, sysCalls, lastOp, convOps, convCalls>>
copVars == <<impl, mode, head, index, work, backups, now, apc, wpc, response, decision,
             phaseIdx, changeIdx, trace, failure, snapshot, proposed, task,
             completedTasks, prompts, lastCmd>>
parseVars == <<text, parsed>>
agentVars == <<agent>>
sessVars == <<ctxDone, cbLog, mu, wk, reading, parseVars, agentVars>>
vars == <<llmVars, convVars, copVars, sessVars>>

----------------------------------------------------------------------------
(* Bounds *)
MaxLines == 3       \* lines in an arbitrary SSE body
MaxFrags == 2       \* fragments of a deterministic backend output
MaxRequests == 3    \* HTTP requests followed per call (the recursion is cut here)
MaxConvOps == 7     \* conversation operations per behaviour
MaxChanges == 2     \* changes proposed by one decision
MaxClock == 1       \* seconds the clock advances per behaviour
MaxPrompts == 1     \* ProcessPrompt calls per behaviour
MaxChunks == 2      \* chunks delivered to the streaming callback per behaviour
MaxLoopPrompts == 3 \* ProcessPrompt calls per behaviour of the agent loop
MaxCalls == 2       \* ProcessPrompt calls that may overlap in one session

----------------------------------------------------------------------------
(* Text is a sequence of characters; a fragment is a text. *)
Frags == {<<>>, <<"a">>, <<"b">>}

RECURSIVE Concat(_)
Concat(ss) == IF ss = <<>> THEN <<>> ELSE Head(ss) \o Concat(Tail(ss))

NoErr == "nil"
Result(t, e) == [text |-> t, err |-> e]
Pending == Result(<<>>, "pending")

(* One line of an SSE body: <<kind, content>>.                             *)
(*   data     data: {"choices":[{"delta":{"content":c}}]}                  *)
(*   nochoice data: {"choices":[]}                                         *)
(*   apierr   data: {"error":{"message":..}}                               *)
(*   bad      data: <not JSON>                                             *)
(*   done     data: [DONE]                                                 *)
(*   blank    an empty line;  other: a line without the data: prefix       *)
(*   ioerr    the read of this line fails with a non-EOF error             *)
Line(k, c) == <<k, c>>
DataLines == {Line("data", c) : c \in Frags}
CtlLines == {Line(k, <<>>) : k \in {"nochoice", "apierr", "bad", "done", "blank", "other", "ioerr"}}
Lines == DataLines \cup CtlLines

SeqsUpTo(S, n) == UNION {[1..k -> S] : k \in 0..n}

(* An SSE body: its lines, and whether the last line ends with a newline. *)
SSEBody(ls, nl) == [kind |-> "sse", lines |-> ls, eofNL |-> nl]
SSEBodies == {SSEBody(ls, nl) : ls \in SeqsUpTo(Lines, MaxLines), nl \in BOOLEAN}

(* A non-streaming body: not JSON, an error object, or a choices list. *)
JSONBody(k, ch) == [kind |-> k, choices |-> ch]
NoBody == [kind |-> "none"]
JSONBodies == {JSONBody("bad", <<>>), JSONBody("error", <<>>), JSONBody("ioerr", <<>>)}
              \cup {JSONBody("ok", ch) : ch \in SeqsUpTo({<<>>, <<"a">>, <<"a", "b">>}, 1)}

(* Bodies sent with an error status: an error page or an error object. *)
SSEErrorBodies == {SSEBody(<<Line("other", <<>>)>>, nl) : nl \in BOOLEAN}
JSONErrorBodies == {JSONBody("bad", <<>>), JSONBody("error", <<>>)}

(* A deterministic backend output: a response without choices, or a        *)
(* sequence of content fragments.                                          *)
Output(nc, fs) == [det |-> TRUE, nochoice |-> nc, frags |-> fs]
AnyBackend == [det |-> FALSE, nochoice |-> FALSE, frags |-> <<>>]
Outputs == {Output(TRUE, <<>>)} \cup {Output(FALSE, fs) : fs \in SeqsUpTo(Frags, MaxFrags)}

SSEOf(o) == SSEBody(
    IF o.nochoice THEN <<Line("nochoice", <<>>), Line("done", <<>>)>>
    ELSE [i \in 1..Len(o.frags) |-> Line("data", o.frags[i])] \o <<Line("done", <<>>)>>,
    TRUE)
JSONOf(o) == JSONBody("ok", IF o.nochoice THEN <<>> ELSE <<Concat(o.frags)>>)

(* A response: the transport failed (no response), or a status and a body. *)
TransportError == 0
StatusOK == 200
StatusNotFound == 404
StatusServerError == 500
CompatURL == "/v1/chat/completions"
NativeURLs == {"/chat/completions", "/api/chat", "/api/generate"}
Request(u, s) == [url |-> u, status |-> s]

(* What the backend may answer to one request.  A deterministic backend   *)
(* answers every request with its output; an arbitrary one with anything.  *)
Responses(st) ==
    IF backend.det
    THEN [status : {StatusOK}, body : {IF st THEN SSEOf(backend) ELSE JSONOf(backend)}]
    ELSE [status : {TransportError}, body : {NoBody}]
         \cup [status : {StatusNotFound, StatusServerError},
               body : IF st THEN SSEErrorBodies ELSE JSONErrorBodies]
         \cup [status : {StatusOK}, body : IF st THEN SSEBodies ELSE JSONBodies]

----------------------------------------------------------------------------
(* The read loop of a streaming response.  i is the next line, acc the     *)
(* state of the loop: fullResponse and the callback invocations so far.    *)
RECURSIVE readStream(_, _, _)
readStream(b, i, acc) ==
    IF i > Len(b.lines) THEN [acc EXCEPT !.err = NoErr]          \* io.EOF: break
    ELSE LET k == b.lines[i][1]
             c == b.lines[i][2]
         IN  IF k = "ioerr" THEN [acc EXCEPT !.err = "error reading stream"]
             ELSE IF i = Len(b.lines) /\ ~b.eofNL
                  THEN [acc EXCEPT !.err = NoErr]                 \* io.EOF with a partial line: break
             ELSE IF k \in {"blank", "other", "nochoice"} THEN readStream(b, i + 1, acc)
             ELSE IF k = "done" THEN [acc EXCEPT !.err = NoErr]
             ELSE IF k = "bad" THEN [acc EXCEPT !.err = "error parsing chunk"]
             ELSE IF k = "apierr" THEN [acc EXCEPT !.err = "API error"]
             ELSE IF c # <<>>
                  THEN readStream(b, i + 1,
                         [acc EXCEPT !.text = @ \o c, !.cb = Append(@, c)])
                  ELSE readStream(b, i + 1, acc)

ReadSSE(b) == readStream(b, 1, [text |-> <<>>, cb |-> <<>>, err |-> NoErr])

(* The decoding of a non-streaming response. *)
DecodeJSON(b) ==
    IF b.kind = "ioerr" THEN Result(<<>>, "failed to read response")
    ELSE IF b.kind = "bad" THEN Result(<<>>, "failed to parse response")
    ELSE IF b.kind = "error" THEN Result(<<>>, "API error")
    ELSE IF Len(b.choices) = 0 THEN Result(<<>>, "no response from API")
    ELSE Result(b.choices[1], NoErr)

(* The fallback condition of the OpenAI-compatible attempt. *)
NeedsFallback(status) ==
    status = TransportError \/ status = StatusNotFound \/ status >= 400

----------------------------------------------------------------------------
(* Client.SendMessageWithCallback up to the dispatch in Stream / Complete. *)
SendMessageWithCallback ==
    /\ cpc = "idle"
    /\ \E p \in {"OpenAI", "Ollama", "other"}, s \in BOOLEAN :
          /\ provider' = p
          /\ streaming' = s
    /\ cpc' = "call"
    /\ requests' = <<>>
    /\ body' = NoBody
    /\ delivered' = <<>>
    /\ inner' = Pending
    /\ ret' = Pending
    /\ UNCHANGED <<backend, last, convVars, copVars, sessVars>>

(* Stream / Complete: default branch of the switch on provider.Type. *)
UnsupportedProvider ==
    /\ cpc = "call"
    /\ provider = "other"
    /\ inner' = Result(<<>>, "unsupported provider type")
    /\ cpc' = "done"
    /\ UNCHANGED <<backend, provider, streaming, requests, body, delivered, ret, last, convVars, copVars, sessVars>>

(* One activation of sendStreamingChatCompletionRequest, entered through   *)
(* sendStreamingChatCompletionToOpenAI.  On fallback it calls              *)
(* sendStreamingChatCompletionToOpenAI again, i.e. itself.                 *)
sendStreamingChatCompletionRequest ==
    /\ cpc = "call"
    /\ provider = "OpenAI"
    /\ streaming
    /\ Len(requests) < MaxRequests
    /\ \E r \in Responses(TRUE) :
          /\ requests' = Append(requests, Request(CompatURL, r.status))
          /\ IF NeedsFallback(r.status)
             THEN /\ cpc' = "call"
                  /\ UNCHANGED <<body, delivered, inner>>
             ELSE LET out == ReadSSE(r.body)
                  IN  /\ body' = r.body
                      /\ delivered' = out.cb
                      /\ inner' = Result(out.text, out.err)
                      /\ cpc' = "done"
    /\ UNCHANGED <<backend, provider, streaming, ret, last, convVars, copVars, sessVars>>

(* One activation of sendChatCompletionRequest, entered through            *)
(* sendChatCompletionToOpenAI; the fallback re-enters it the same way.     *)
sendChatCompletionRequest ==
    /\ cpc = "call"
    /\ provider = "OpenAI"
    /\ ~streaming
    /\ Len(requests) < MaxRequests
    /\ \E r \in Responses(FALSE) :
          /\ requests' = Append(requests, Request(CompatURL, r.status))
          /\ IF NeedsFallback(r.status)
             THEN /\ cpc' = "call"
                  /\ UNCHANGED <<body, inner>>
             ELSE /\ body' = r.body
                  /\ inner' = DecodeJSON(r.body)
                  /\ cpc' = "done"
    /\ UNCHANGED <<backend, provider, streaming, delivered, ret, last, convVars, copVars, sessVars>>

(* A streaming request to Ollama that reports an error status. *)
sendStreamingCheckingStatus ==
    /\ cpc = "call"
    /\ provider = "Ollama"
    /\ streaming
    /\ \E r \in Responses(TRUE) :
          /\ requests' = Append(requests, Request(CompatURL, r.status))
          /\ IF r.status = TransportError
             THEN /\ inner' = Result(<<>>, "failed to send request")
                  /\ UNCHANGED <<body, delivered>>
             ELSE IF r.status >= 400
             THEN /\ body' = r.body
                  /\ inner' = Result(<<>>, "API error")
                  /\ UNCHANGED delivered
             ELSE LET out == ReadSSE(r.body)
                  IN  /\ body' = r.body
                      /\ delivered' = out.cb
                      /\ inner' = Result(out.text, out.err)
    /\ cpc' = "done"
    /\ UNCHANGED <<backend, provider, streaming, ret, last, convVars, copVars, sessVars>>

(* Client.sendStreamingChatCompletionToOllama: one request, the status of  *)
(* the response is not looked at.                                          *)
sendStreamingChatCompletionToOllama ==
    /\ cpc = "call"
    /\ provider = "Ollama"
    /\ streaming
    /\ \E r \in Responses(TRUE) :
          /\ requests' = Append(requests, Request(CompatURL, r.status))
          /\ IF r.status = TransportError
             THEN /\ inner' = Result(<<>>, "failed to send request")
                  /\ UNCHANGED <<body, delivered>>
             ELSE LET out == ReadSSE(r.body)
                  IN  /\ body' = r.body
                      /\ delivered' = out.cb
                      /\ inner' = Result(out.text, out.err)
    /\ cpc' = "done"
    /\ UNCHANGED <<backend, provider, streaming, ret, last, convVars, copVars, sessVars>>

(* Client.sendChatCompletionToOllama: one request, decoded whatever the status. *)
sendChatCompletionToOllama ==
    /\ cpc = "call"
    /\ provider = "Ollama"
    /\ ~streaming
    /\ \E r \in Responses(FALSE) :
          /\ requests' = Append(requests, Request(CompatURL, r.status))
          /\ IF r.status = TransportError
             THEN /\ inner' = Result(<<>>, "failed to send request")
                  /\ UNCHANGED body
             ELSE /\ body' = r.body
                  /\ inner' = IF r.body.kind \in {"bad", "ioerr"}
                              THEN Result(<<>>, "failed to decode response")
                              ELSE DecodeJSON(r.body)
    /\ cpc' = "done"
    /\ UNCHANGED <<backend, provider, streaming, delivered, ret, last, convVars, copVars, sessVars>>

(* The text SendMessageWithCallback hands back for the result of Stream / Complete. *)
ReturnedText(res) == IF res.err # NoErr THEN <<>> ELSE res.text

(* SendMessageWithCallback after Stream / Complete returned. *)
ReturnToCaller ==
    /\ cpc = "done"
    /\ ret' = Result(ReturnedText(inner), inner.err)
    /\ cpc' = "returned"
    /\ last' = IF ~backend.det \/ provider = "other" THEN last
               ELSE [last EXCEPT ![streaming] =
                        [set |-> TRUE,
                         text |-> IF streaming THEN Concat(delivered) ELSE inner.text,
                         failed |-> inner.err # NoErr]]
    /\ UNCHANGED <<backend, provider, streaming, requests, body, delivered, inner, convVars, copVars, sessVars>>

(* The client is ready for the next call. *)
NextCall ==
    /\ cpc = "returned"
    /\ cpc' = "idle"
    /\ UNCHANGED <<backend, provider, streaming, requests, body, delivered, inner, ret, last, convVars, copVars, sessVars>>

----------------------------------------------------------------------------
(* The copilot's data: the workspace, the decision, the trace.             *)

Files == {"f1", "f2"}
FileOrder == <<"f1", "f2">>
Absent == "absent"          \* the file does not exist
Generated == "g"            \* content generated by the LLM for a change
ToolText == "t"             \* content carried by a tool call of the LLM

(* How a file stands at start: committed and unchanged, committed with an  *)
(* uncommitted edit, untracked, or missing.                                *)
StatusNames == {"clean", "dirty", "untracked", "missing"}
HeadOf(s) == IF s \in {"clean", "dirty"} THEN "h" ELSE Absent
WorkOf(s) == IF s = "clean" THEN "h"
             ELSE IF s = "dirty" THEN "d"
             ELSE IF s = "untracked" THEN "u"
             ELSE Absent
Workspaces == {s \in [Files -> StatusNames] : s["f2"] \in {"clean", "missing"}}

(* type Change, type Decision *)
NoPath == <<>>
Change(f, b) == [FilePath |-> f, Backup |-> b]
Decision(p, a, r, c, t, ch) ==
    [Phase |-> p, Action |-> a, Reasoning |-> r, Context |-> c, Tools |-> t, Changes |-> ch]
NoDecision == Decision("", "", "", <<>>, <<>>, <<>>)

PhaseAnalysis == "analysis"
PhaseContext == "context"
PhaseModification == "modification"
PhaseVerification == "verification"
Phases == <<PhaseAnalysis, PhaseContext, PhaseModification, PhaseVerification>>

(* The answer to the analysis prompt, by key: the values of the lines with *)
(* that key (none, or one).  A Changes line is "path|description".         *)
FieldValues == {<<>>, <<"">>, <<"N/A">>, <<"fix">>}
PhaseValues == {<<>>, <<"bogus">>} \cup {<<Phases[i]>> : i \in 1..4}
DecisionResponses ==
    {r \in [phase : PhaseValues, action : FieldValues, reasoning : FieldValues,
            context : {<<>>, <<"f1">>}, tools : {<<>>, <<"git">>},
            changes : SeqsUpTo(Files, MaxChanges)] :
        (r.context = <<>>) = (r.tools = <<>>)}
NoResponse ==
    [phase |-> <<>>, action |-> <<>>, reasoning |-> <<>>,
     context |-> <<>>, tools |-> <<>>, changes |-> <<>>]

(* One entry of the trace: a handler invocation or a tool execution, who   *)
(* issued it, whether it succeeded, and for a write the Backup field of    *)
(* the change at that moment.                                              *)
Event(k, a, ok, by, bp) == [kind |-> k, arg |-> a, ok |-> ok, by |-> by, backup |-> bp]

Unset == "unset"
NoCmd == [name |-> "none", ok |-> TRUE, input |-> ""]

Calls == 1..MaxCalls
Worker(pc, ph, late) == [pc |-> pc, phase |-> ph, late |-> late]

(* No text parsed yet. *)
Unparsed == [done |-> FALSE, decision |-> <<>>, err |-> NoErr]

(* No task is being executed by the agent. *)
AgentAt(pc, plan, i, results, failed, err) ==
    [pc |-> pc, plan |-> plan, i |-> i, results |-> results, failed |-> failed, err |-> err]
IdleAgent == AgentAt("idle", 0, 0, <<>>, FALSE, NoErr)

InitWorkers ==
    /\ agent = IdleAgent
    /\ ctxDone = FALSE
    /\ cbLog = <<>>
    /\ mu = 0
    /\ wk = [w \in Calls |-> Worker("idle", 0, FALSE)]
    /\ reading = [w \in Calls |-> TRUE]

InitSessVars ==
    /\ InitWorkers
    /\ text = <<>>
    /\ parsed = Unparsed

InitCopVars ==
    /\ impl = "phased"
    /\ mode = "chat"
    /\ head = [f \in Files |-> "h"]
    /\ index = [f \in Files |-> "h"]
    /\ work = [f \in Files |-> "h"]
    /\ backups = {}
    /\ now = 0
    /\ apc = "prompt"
    /\ wpc = "none"
    /\ response = NoResponse
    /\ decision = NoDecision
    /\ phaseIdx = 0
    /\ changeIdx = 0
    /\ trace = <<>>
    /\ failure = NoErr
    /\ snapshot = [f \in Files |-> Unset]
    /\ proposed = <<>>
    /\ task = "none"
    /\ completedTasks = <<>>
    /\ prompts = 0
    /\ lastCmd = NoCmd

InitLLMVars ==
    /\ cpc = "idle"
    /\ provider = "OpenAI"
    /\ streaming = FALSE
    /\ requests = <<>>
    /\ body = NoBody
    /\ delivered = <<>>
    /\ inner = Pending
    /\ ret = Pending
    /\ last = [m \in BOOLEAN |-> [set |-> FALSE, text |-> <<>>, failed |-> FALSE]]

InitConvVars ==
    /\ conversation = <<>>
    /\ sysCalls = <<>>
    /\ lastOp = "NewClient"
    /\ convOps = 0
    /\ convCalls = <<>>

InitLLM ==
    /\ backend \in {AnyBackend} \cup Outputs
    /\ InitLLMVars
    /\ InitConvVars
    /\ InitCopVars
    /\ InitSessVars

NextLLM ==
    \/ SendMessageWithCallback
    \/ UnsupportedProvider
    \/ sendStreamingChatCompletionRequest
    \/ sendChatCompletionRequest
    \/ sendStreamingChatCompletionToOllama
    \/ sendChatCompletionToOllama
    \/ ReturnToCaller
    \/ NextCall

SpecLLM == InitLLM /\ [][NextLLM]_vars

----------------------------------------------------------------------------
(* The conversation store: Client.conversation and its operations.         *)
(* The content of the n-th operation's messages is n.                      *)
MaxConversation == 10

Message(r, c) == [role |-> r, content |-> c]

(* A cap that keeps the oldest entries instead of the newest. *)
LimitHistoryOldest(conv) ==
    IF Len(conv) > MaxConversation THEN SubSeq(conv, 1, MaxConversation) ELSE conv

(* The cap shared by UpdateConversation and AddSystemMessage. *)
LimitHistory(conv) ==
    IF Len(conv) > MaxConversation
    THEN SubSeq(conv, Len(conv) - MaxConversation + 1, Len(conv))
    ELSE conv

IsNotSystem(m) == m.role # "system"
IsSystem(m) == m.role = "system"

(* Client.AddSystemMessage *)
ClientAddSystemMessage(conv, c) == LimitHistory(Append(conv, Message("system", c)))

(* An update that records the reply without the prompt. *)
UpdateKeepingOnlyReply(conv, u, a) == LimitHistory(Append(conv, Message("assistant", a)))

(* Client.UpdateConversation *)
ClientUpdateConversation(conv, u, a) ==
    LimitHistory(conv \o <<Message("user", u), Message("assistant", a)>>)

(* Client.ClearSystemMessages *)
ClientClearSystemMessages(conv) == SelectSeq(conv, IsNotSystem)

(* Client.AddSystemMessage, called on the client: by Copilot.ProcessPrompt, *)
(* Copilot.StartAgentMode and Copilot.AddSystemMessage.                    *)
AddSystemMessage ==
    /\ convOps < MaxConvOps
    /\ convOps' = convOps + 1
    /\ conversation' = ClientAddSystemMessage(conversation, convOps')
    /\ sysCalls' = Append(sysCalls, convOps')
    /\ lastOp' = "AddSystemMessage"
    /\ convCalls' = Append(convCalls, lastOp')
    /\ UNCHANGED <<llmVars, copVars, sessVars>>

(* ChatHandler.AddSystemMessage: ClearSystemMessages, then AddSystemMessage. *)
ChatHandlerAddSystemMessage ==
    /\ convOps < MaxConvOps
    /\ convOps' = convOps + 1
    /\ conversation' =
          ClientAddSystemMessage(ClientClearSystemMessages(conversation), convOps')
    /\ sysCalls' = Append(sysCalls, convOps')
    /\ lastOp' = "ChatHandler.AddSystemMessage"
    /\ convCalls' = Append(convCalls, lastOp')
    /\ UNCHANGED <<llmVars, copVars, sessVars>>

(* Client.UpdateConversation with a user message and its response. *)
UpdateConversation ==
    /\ convOps < MaxConvOps
    /\ convOps' = convOps + 1
    /\ conversation' = ClientUpdateConversation(conversation, convOps', convOps')
    /\ lastOp' = "UpdateConversation"
    /\ convCalls' = Append(convCalls, lastOp')
    /\ UNCHANGED <<sysCalls, llmVars, copVars, sessVars>>

(* Client.ResetConversation *)
ResetConversation ==
    /\ convOps < MaxConvOps
    /\ convOps' = convOps + 1
    /\ conversation' = <<>>
    /\ lastOp' = "ResetConversation"
    /\ convCalls' = Append(convCalls, lastOp')
    /\ UNCHANGED <<sysCalls, llmVars, copVars, sessVars>>

InitConv ==
    /\ backend = AnyBackend
    /\ InitLLMVars
    /\ InitConvVars
    /\ InitCopVars
    /\ InitSessVars

NextConv ==
    \/ AddSystemMessage
    \/ ChatHandlerAddSystemMessage
    \/ UpdateConversation
    \/ ResetConversation

SpecConv == InitConv /\ [][NextConv]_vars

----------------------------------------------------------------------------
(* The tools.  FileSystemTool and GitTool dispatch on the operation name;  *)
(* any other operation is answered with "unknown operation".               *)
FileSystemOps == {"write", "read", "backup", "restore"}
GitOps == {"diff", "commit", "reset"}

(* A backup file: .tama/backups/<timestamp>/<path>. *)
BackupPath(t, f) == <<t, f>>
BackupFile(p, c, cm) == [path |-> p, content |-> c, committed |-> cm]
Stamps == {t \in {now, now + 1} : t <= MaxClock}

FSResult(ok, res, w, b) == [ok |-> ok, result |-> res, work |-> w, backups |-> b]

(* A backup that does not need the source file. *)
createBackupOfAnything(w, b, t, f, io) ==
    IF ~io THEN FSResult(FALSE, NoPath, w, b)
    ELSE FSResult(TRUE, BackupPath(t, f), w,
                  {e \in b : e.path # BackupPath(t, f)}
                      \cup {BackupFile(BackupPath(t, f), w[f], FALSE)})

(* FileSystemTool.createBackup: io is FALSE when a directory cannot be     *)
(* made or the backup file cannot be written.                              *)
createBackup(w, b, t, f, io) ==
    IF ~io \/ w[f] = Absent THEN FSResult(FALSE, NoPath, w, b)
    ELSE LET p == BackupPath(t, f)
         IN  FSResult(TRUE, p, w,
                      {e \in b : e.path # p} \cup {BackupFile(p, w[f], FALSE)})

(* FileSystemTool.writeFile *)
writeFile(w, b, f, c, io) ==
    IF ~io THEN FSResult(FALSE, NoPath, w, b)
    ELSE FSResult(TRUE, NoPath, [w EXCEPT ![f] = c], b)

(* FileSystemTool.readFile *)
readFile(w, b, f) == FSResult(w[f] # Absent, NoPath, w, b)

(* FileSystemTool.restoreBackup *)
restoreBackup(w, b, f, p, io) ==
    LET src == {e \in b : e.path = p}
    IN  IF ~io \/ src = {} THEN FSResult(FALSE, NoPath, w, b)
        ELSE FSResult(TRUE, NoPath, [w EXCEPT ![f] = (CHOOSE e \in src : TRUE).content], b)

GitResult(ok, h, i, w, b) == [ok |-> ok, head |-> h, index |-> i, work |-> w, backups |-> b]
Tracked(h, i, f) == h[f] # Absent \/ i[f] # Absent

(* A reset that also removes what is untracked (git clean -fd). *)
resetAndClean(h, i, w, b, io) ==
    IF ~io THEN GitResult(FALSE, h, i, w, b) ELSE GitResult(TRUE, h, h, h, {})

(* A reset that moves the index and leaves the working tree (git reset). *)
resetIndexOnly(h, i, w, b, io) == GitResult(io, h, IF io THEN h ELSE i, w, b)

(* GitTool.reset: git reset --hard HEAD.  Untracked files are left alone. *)
reset(h, i, w, b, io) ==
    IF ~io THEN GitResult(FALSE, h, i, w, b)
    ELSE GitResult(TRUE, h, h, [f \in Files |-> IF Tracked(h, i, f) THEN h[f] ELSE w[f]], b)

(* A commit of the tracked files only (git commit -a). *)
commitTracked(h, i, w, b, ioAdd, ioCommit) ==
    IF ~ioAdd \/ ~ioCommit THEN GitResult(FALSE, h, i, w, b)
    ELSE GitResult(TRUE, [f \in Files |-> IF Tracked(h, i, f) THEN w[f] ELSE h[f]],
                   [f \in Files |-> IF Tracked(h, i, f) THEN w[f] ELSE i[f]], w, b)

(* GitTool.commit: git add . and git commit.  The commit fails when there  *)
(* is nothing to commit.  The index entries of backup files are not kept.  *)
commit(h, i, w, b, ioAdd, ioCommit) ==
    IF ~ioAdd THEN GitResult(FALSE, h, i, w, b)
    ELSE IF ~ioCommit \/ (w = h /\ \A e \in b : e.committed) THEN GitResult(FALSE, h, w, w, b)
    ELSE GitResult(TRUE, w, w, w, {BackupFile(e.path, e.content, TRUE) : e \in b})

(* git status --porcelain, without the untracked entries. *)
ChangedTracked(h, i, w, f) == Tracked(h, i, f) /\ (w[f] # i[f] \/ i[f] # h[f])

----------------------------------------------------------------------------
(* The decision engine. *)

isValidPhase(p) == \E i \in 1..Len(Phases) : Phases[i] = p

Meaningful(v) == v # <<>> /\ v[1] \notin {"", "N/A"}
Raw(v) == IF v = <<>> THEN "" ELSE v[1]
ParsedChanges(r) == [i \in 1..Len(r.changes) |-> Change(r.changes[i], NoPath)]

(* What ProcessPrompt and StartAgentMode put in the conversation: the     *)
(* system messages, the text of the n-th prompt, and the response to the   *)
(* "Continue with ... phase" message of phase i.                           *)
systemMsg == <<"systemMsg">>
agentModeMsg == <<"agent mode">>
PromptText(n) == <<"prompt", n>>
PhaseReply(i) == <<"response", i>>

(* A parsing loop that takes the Phase value as written. *)
ParseKeepingPhase(r) ==
    Decision(IF r.phase # <<>> THEN r.phase[1] ELSE PhaseAnalysis,
             IF Meaningful(r.action) THEN r.action[1] ELSE "",
             IF Meaningful(r.reasoning) THEN r.reasoning[1] ELSE "",
             r.context, r.tools, ParsedChanges(r))

(* The parsing loop of getInitialDecision, phased implementation. *)
ParsePhased(r) ==
    Decision(IF r.phase # <<>> /\ isValidPhase(r.phase[1]) THEN r.phase[1] ELSE PhaseAnalysis,
             IF Meaningful(r.action) THEN r.action[1] ELSE "",
             IF Meaningful(r.reasoning) THEN r.reasoning[1] ELSE "",
             r.context, r.tools, ParsedChanges(r))

(* The parsing loop of getInitialDecision, single-handler implementation. *)
ParseSingle(r) ==
    Decision(Raw(r.phase), Raw(r.action), Raw(r.reasoning),
             r.context, r.tools, ParsedChanges(r))

validateDecision(d) ==
    IF d.Phase = "" THEN "phase is required"
    ELSE IF d.Action = "" THEN "action is required"
    ELSE IF d.Reasoning = "" THEN "reasoning is required"
    ELSE NoErr

(* The index of the decision's phase in the phase table, 0 when not found. *)
PhaseIndex(p) == IF isValidPhase(p) THEN CHOOSE i \in 1..Len(Phases) : Phases[i] = p ELSE 0

----------------------------------------------------------------------------
(* What the LLM may answer to the analysis prompt: any response, or, for a *)
(* backend with one output, that output, which has no line of the decision *)
(* format.                                                                 *)
Answers(b) == IF b = AnyBackend THEN DecisionResponses ELSE {NoResponse}

(* ProcessPrompt calls followed per behaviour. *)
PromptBudget == IF backend = AnyBackend THEN MaxPrompts ELSE MaxLoopPrompts

(* Copilot.ProcessPrompt up to the start of the worker goroutine. *)
ProcessPrompt ==
    /\ apc = "prompt" \/ (mode = "chat" /\ apc = "choice")
    /\ prompts < PromptBudget
    /\ prompts' = prompts + 1
    /\ apc' = "running"
    /\ \E autofix \in IF mode = "chat" /\ impl = "phased" THEN BOOLEAN ELSE {FALSE} :
          IF autofix
          THEN /\ wpc' = "autofix"
               /\ UNCHANGED conversation
          ELSE /\ wpc' = "decide"
               /\ conversation' = ClientAddSystemMessage(conversation, systemMsg)
    /\ response' = NoResponse
    /\ decision' = NoDecision
    /\ phaseIdx' = 0
    /\ changeIdx' = 0
    /\ trace' = <<>>
    /\ failure' = NoErr
    /\ snapshot' = [f \in Files |-> Unset]
    /\ lastCmd' = NoCmd
    /\ UNCHANGED <<llmVars, sessVars, sysCalls, lastOp, convOps, convCalls, impl, mode, head, index, work,
                   backups, now, proposed, task, completedTasks>>

(* The worker: getInitialDecision and the choice of the first handler. *)
getInitialDecision ==
    /\ wpc = "decide"
    /\ \/ /\ failure' = "failed to get initial decision"
          /\ wpc' = "closed"
          /\ UNCHANGED <<response, decision, phaseIdx, proposed>>
       \/ \E r \in Answers(backend) :
             LET d == IF impl = "phased" THEN ParsePhased(r) ELSE ParseSingle(r)
                 v == IF impl = "phased" THEN validateDecision(d) ELSE NoErr
                 k == PhaseIndex(d.Phase)
             IN  /\ response' = r
                 /\ IF v # NoErr
                    THEN /\ failure' = "invalid decision"
                         /\ wpc' = "closed"
                         /\ UNCHANGED <<decision, phaseIdx, proposed>>
                    ELSE /\ decision' = d
                         /\ proposed' = d.Changes
                         /\ phaseIdx' = k
                         /\ failure' = IF k = 0 /\ impl = "phased" THEN "Invalid phase" ELSE NoErr
                         /\ wpc' = IF k # 0 THEN "handler"
                                   ELSE IF impl = "phased" THEN "closed" ELSE "respond"
    /\ UNCHANGED <<llmVars, sessVars, convVars, impl, mode, head, index, work, backups, now, apc,
                   changeIdx, trace, snapshot, task, completedTasks, prompts, lastCmd>>

Invoked(p) == Event("handler", p, TRUE, "worker", NoPath)

handleAnalysisPhase ==
    /\ wpc = "handler"
    /\ phaseIdx = 1
    /\ trace' = Append(trace, Invoked(PhaseAnalysis))
                \o [i \in 1..Len(decision.Context) |->
                      Event("read", decision.Context[i],
                            readFile(work, backups, decision.Context[i]).ok,
                            PhaseAnalysis, NoPath)]
    /\ wpc' = "respond"
    /\ UNCHANGED <<llmVars, sessVars, convVars, impl, mode, head, index, work, backups, now, apc,
                   response, decision, phaseIdx, changeIdx, failure, snapshot, proposed,
                   task, completedTasks, prompts, lastCmd>>

(* Phased: every entry of Tools is a pattern for grep_search.  Single:     *)
(* every entry names a tool, executed with the operation "read".           *)
handleContextPhase ==
    /\ wpc = "handler"
    /\ phaseIdx = 2
    /\ trace' = Append(trace, Invoked(PhaseContext))
                \o [i \in 1..Len(decision.Tools) |->
                      IF impl = "phased"
                      THEN Event("grep_search", decision.Tools[i], TRUE, PhaseContext, NoPath)
                      ELSE Event(decision.Tools[i], "read",
                                 IF decision.Tools[i] = "git" THEN "read" \in GitOps ELSE FALSE,
                                 PhaseContext, NoPath)]
    /\ wpc' = "respond"
    /\ UNCHANGED <<llmVars, sessVars, convVars, impl, mode, head, index, work, backups, now, apc,
                   response, decision, phaseIdx, changeIdx, failure, snapshot, proposed,
                   task, completedTasks, prompts, lastCmd>>

(* handleModificationPhase up to its loop over the changes. *)
handleModificationPhase ==
    /\ wpc = "handler"
    /\ phaseIdx = 3
    /\ trace' = Append(trace, Invoked(PhaseModification))
    /\ changeIdx' = 1
    /\ wpc' = IF decision.Changes = <<>> THEN "respond" ELSE "change"
    /\ UNCHANGED <<llmVars, sessVars, convVars, impl, mode, head, index, work, backups, now, apc,
                   response, decision, phaseIdx, failure, snapshot, proposed,
                   task, completedTasks, prompts, lastCmd>>

Outcome(h, i, w, b, tr, sn, err) ==
    [head |-> h, index |-> i, work |-> w, backups |-> b, trace |-> tr, snapshot |-> sn, err |-> err]

(* The rollback closure of handleModificationPhase: git reset. *)
rollback(h, i, w, b, tr, sn, rio, err) ==
    LET g == reset(h, i, w, b, rio)
    IN  Outcome(g.head, g.index, g.work, g.backups,
                Append(tr, Event("git", "reset", g.ok, "rollback", NoPath)), sn, err)

Faults == {"none", "backup", "generate", "write"}

(* git add of one path, as issued by the handlers through GitTool.Execute. *)
Staged(i, w, f) == IF "add" \in GitOps THEN [i EXCEPT ![f] = w[f]] ELSE i

(* One pass of the loop of handleModificationPhase, phased implementation. *)
applyChangePhased(ch, t, fault, rio) ==
    LET f == ch.FilePath
        bk == createBackup(work, backups, t, f, fault # "backup")
        t1 == Append(trace, Event("backup", f, bk.ok, PhaseModification, NoPath))
        rd == readFile(bk.work, bk.backups, f)
        t2 == Append(t1, Event("read", f, rd.ok, PhaseModification, NoPath))
        wr == writeFile(bk.work, bk.backups, f, Generated, fault # "write")
        t3 == Append(t2, Event("write", f, wr.ok, PhaseModification, ch.Backup))
        t4 == Append(t3, Event("git", "add", "add" \in GitOps, PhaseModification, NoPath))
        sn == IF snapshot[f] = Unset THEN [snapshot EXCEPT ![f] = work[f]] ELSE snapshot
    IN  IF ~bk.ok
        THEN rollback(head, index, bk.work, bk.backups, t1, snapshot, rio, "backup creation failed")
        ELSE IF ~rd.ok
        THEN rollback(head, index, bk.work, bk.backups, t2, snapshot, rio, "file read failed")
        ELSE IF fault = "generate"
        THEN rollback(head, index, bk.work, bk.backups, t2, snapshot, rio, "content generation failed")
        ELSE IF ~wr.ok
        THEN rollback(head, index, wr.work, wr.backups, t3, snapshot, rio, "file write failed")
        ELSE Outcome(head, Staged(index, wr.work, f), wr.work, wr.backups, t4, sn, NoErr)

(* One pass of the loop of handleModificationPhase, single-handler         *)
(* implementation: a failed backup is a warning, a failed generation or    *)
(* write skips to the next change.                                         *)
applyChangeSingle(ch, t, fault) ==
    LET f == ch.FilePath
        bk == createBackup(work, backups, t, f, fault # "backup")
        held == IF bk.ok THEN bk.result ELSE ch.Backup
        t1 == Append(trace, Event("backup", f, bk.ok, PhaseModification, NoPath))
        rd == readFile(bk.work, bk.backups, f)
        t2 == Append(t1, Event("read", f, rd.ok, PhaseModification, NoPath))
        wr == writeFile(bk.work, bk.backups, f, Generated, fault # "write")
        t3 == Append(t2, Event("write", f, wr.ok, PhaseModification, held))
        t4 == Append(t3, Event("git", "add", "add" \in GitOps, PhaseModification, NoPath))
        sn == IF snapshot[f] = Unset THEN [snapshot EXCEPT ![f] = work[f]] ELSE snapshot
    IN  IF fault = "generate"
        THEN Outcome(head, index, bk.work, bk.backups, t2, snapshot, NoErr)
        ELSE IF ~wr.ok
        THEN Outcome(head, index, wr.work, wr.backups, t3, snapshot, NoErr)
        ELSE Outcome(head, Staged(index, wr.work, f), wr.work, wr.backups, t4, sn, NoErr)

(* The loop of handleModificationPhase: the change at changeIdx. *)
ApplyChange ==
    /\ wpc = "change"
    /\ changeIdx <= Len(decision.Changes)
    /\ \E t \in Stamps, fault \in Faults, rio \in BOOLEAN :
          LET ch == decision.Changes[changeIdx]
              o == IF impl = "phased" THEN applyChangePhased(ch, t, fault, rio)
                   ELSE applyChangeSingle(ch, t, fault)
          IN  /\ head' = o.head
              /\ index' = o.index
              /\ work' = o.work
              /\ backups' = o.backups
              /\ trace' = o.trace
              /\ snapshot' = o.snapshot
              /\ failure' = o.err
              /\ now' = t
              /\ IF o.err # NoErr
                 THEN /\ wpc' = "closed"
                      /\ UNCHANGED changeIdx
                 ELSE /\ changeIdx' = changeIdx + 1
                      /\ wpc' = IF changeIdx = Len(decision.Changes) THEN "respond" ELSE "change"
    /\ UNCHANGED <<llmVars, sessVars, convVars, impl, mode, apc, response, decision, phaseIdx,
                   proposed, task, completedTasks, prompts, lastCmd>>

handleVerificationPhase ==
    /\ wpc = "handler"
    /\ phaseIdx = 4
    /\ trace' = trace \o <<Invoked(PhaseVerification),
                           Event("git", "diff", "diff" \in GitOps, PhaseVerification, NoPath)>>
    /\ wpc' = "respond"
    /\ UNCHANGED <<llmVars, sessVars, convVars, impl, mode, head, index, work, backups, now, apc,
                   response, decision, phaseIdx, changeIdx, failure, snapshot, proposed,
                   task, completedTasks, prompts, lastCmd>>

(* What a chunk of the phase's answer may be: text, or a call of a         *)
(* registered tool, which the callback executes.                           *)
ToolCall(tl, op, p) == [tool |-> tl, op |-> op, path |-> p]
NoToolCall == ToolCall("", "", "")
ToolCalls == {ToolCall("filesystem", "write", "f1")}

(* ToolCall.Execute for the calls above. *)
Executes(tc) ==
    IF tc.tool = "filesystem" THEN tc.op \in FileSystemOps
    ELSE IF tc.tool = "git" THEN tc.op \in GitOps
    ELSE FALSE

(* The message sent to the LLM after the handler, its callback, and        *)
(* UpdateConversation.  Phased: once per phase, then on to the next phase. *)
(* Single: once, then the worker ends.                                     *)
PhaseResponse ==
    /\ wpc = "respond"
    /\ \/ /\ failure' = "Error getting LLM response"
          /\ wpc' = "closed"
          /\ UNCHANGED <<conversation, work, trace, phaseIdx>>
       \/ \E tc \in ToolCalls \cup {NoToolCall} :
             /\ IF tc = NoToolCall
                THEN UNCHANGED <<work, trace>>
                ELSE /\ trace' = Append(trace, Event(tc.tool, tc.op, Executes(tc), "callback", NoPath))
                     /\ work' = IF Executes(tc) /\ tc.tool = "filesystem" /\ tc.op = "write"
                                THEN writeFile(work, backups, tc.path, ToolText, TRUE).work
                                ELSE work
             /\ conversation' = ClientUpdateConversation(conversation, PromptText(prompts),
                                                       PhaseReply(phaseIdx))
             /\ UNCHANGED failure
             /\ IF impl = "phased" /\ phaseIdx < Len(Phases)
                THEN /\ phaseIdx' = phaseIdx + 1
                     /\ wpc' = "handler"
                ELSE /\ wpc' = "closed"
                     /\ UNCHANGED phaseIdx
    /\ UNCHANGED <<llmVars, sessVars, sysCalls, lastOp, convOps, convCalls, impl, mode, head, index, backups,
                   now, apc, response, decision, changeIdx, snapshot, proposed, task,
                   completedTasks, prompts, lastCmd>>

(* Step 4 of AutoFixCode over the files with issues, in order: backup,     *)
(* generate, write; any failure skips to the next file.                    *)
RECURSIVE fixFiles(_, _, _, _)
fixFiles(fs, acc, faults, t) ==
    IF fs = <<>> THEN acc
    ELSE LET f == Head(fs)
             bk == createBackup(acc.work, acc.backups, t, f, faults[f] # "backup")
             t1 == Append(acc.trace, Event("backup", f, bk.ok, "autofix", NoPath))
             wr == writeFile(bk.work, bk.backups, f, Generated, faults[f] # "write")
             t2 == Append(t1, Event("write", f, wr.ok, "autofix", NoPath))
         IN  IF ~bk.ok
             THEN fixFiles(Tail(fs), [acc EXCEPT !.trace = t1], faults, t)
             ELSE IF faults[f] = "generate"
             THEN fixFiles(Tail(fs), [acc EXCEPT !.backups = bk.backups, !.trace = t1], faults, t)
             ELSE fixFiles(Tail(fs), [acc EXCEPT !.work = wr.work, !.backups = wr.backups,
                                                 !.trace = t2], faults, t)

(* The worker of an auto-fix request: AutoFixCode.  Step 2 lists the files *)
(* with the filesystem tool's "list" operation.                            *)
AutoFixCode ==
    /\ wpc = "autofix"
    /\ IF "list" \notin FileSystemOps
       THEN /\ trace' = Append(trace, Event("filesystem", "list", FALSE, "autofix", NoPath))
            /\ failure' = "failed to scan files"
            /\ UNCHANGED <<work, backups, now>>
       ELSE \E issues \in SUBSET Files, faults \in [Files -> Faults], t \in Stamps :
               LET o == fixFiles(SelectSeq(FileOrder, LAMBDA f : f \in issues),
                                 [work |-> work, backups |-> backups, trace |-> trace],
                                 faults, t)
               IN  /\ work' = o.work
                   /\ backups' = o.backups
                   /\ trace' = o.trace
                   /\ now' = t
                   /\ UNCHANGED failure
    /\ wpc' = "closed"
    /\ UNCHANGED <<llmVars, sessVars, convVars, impl, mode, head, index, apc, response, decision,
                   phaseIdx, changeIdx, snapshot, proposed, task, completedTasks, prompts,
                   lastCmd>>

----------------------------------------------------------------------------
(* The foreground: runAgentLoop, StartInteractiveChat, HandleConfirmation. *)

(* backupChangedFiles copies every changed tracked file, stopping at the   *)
(* first that cannot be read.                                              *)
RECURSIVE copyChanged(_, _, _)
copyChanged(fs, b, t) ==
    IF fs = <<>> THEN b
    ELSE LET f == Head(fs)
         IN  IF ~ChangedTracked(head, index, work, f) THEN copyChanged(Tail(fs), b, t)
             ELSE IF work[f] = Absent THEN b
             ELSE copyChanged(Tail(fs),
                              {e \in b : e.path # BackupPath(t, f)}
                                  \cup {BackupFile(BackupPath(t, f), work[f], FALSE)}, t)

(* Phased: the file list comes from the git tool's "status" operation and  *)
(* the directories from the filesystem tool's "mkdir".  Single: from       *)
(* git status in a terminal and from os.MkdirAll.                          *)
backupChangedFiles(t) ==
    IF impl = "phased" /\ ("status" \notin GitOps \/ "mkdir" \notin FileSystemOps)
    THEN backups
    ELSE copyChanged(FileOrder, backups, t)

(* A retired task that keeps the status it had. *)
TaskStateKept(st, was) == [Status |-> was, was |-> was]

(* An entry of AgentState.CompletedTasks: its Status, and the status the   *)
(* task had when the loop retired it.                                      *)
TaskState(st, was) == [Status |-> st, was |-> was]

(* runAgentLoop from the end of the response stream to the prompt for the  *)
(* operator's choice.                                                      *)
UpdateAgentState ==
    /\ mode = "agent"
    /\ apc = "running"
    /\ wpc = "closed"
    /\ completedTasks' = IF task # "none"
                         THEN Append(completedTasks, TaskState("completed", task))
                         ELSE completedTasks
    /\ task' = "in_progress"
    /\ \E t \in Stamps :
          /\ backups' = backupChangedFiles(t)
          /\ now' = IF backups' = backups THEN now ELSE t
    /\ apc' = "choice"
    /\ wpc' = "none"
    /\ response' = NoResponse
    /\ decision' = NoDecision
    /\ phaseIdx' = 0
    /\ changeIdx' = 0
    /\ trace' = <<>>
    /\ failure' = NoErr
    /\ UNCHANGED <<llmVars, sessVars, convVars, impl, mode, head, index, work, snapshot, proposed,
                   prompts, lastCmd>>

ToLower(s) == IF s = "A" THEN "a" ELSE s
Inputs == {"a", "r", "A", "all", "d", "s", "p", "q", "x"}

(* runAgentLoop: the switch on the operator's input. *)
OperatorCommand ==
    /\ mode = "agent"
    /\ apc = "choice"
    /\ \E input \in Inputs, io1 \in BOOLEAN, io2 \in BOOLEAN :
          LET cmd == ToLower(input)
              c == commit(head, index, work, backups, io1, io2)
              r == reset(head, index, work, backups, io1)
          IN  IF cmd = "a"
              THEN /\ task' = "completed"
                   /\ head' = c.head /\ index' = c.index /\ work' = c.work
                   /\ backups' = c.backups
                   /\ lastCmd' = [name |-> "accept", ok |-> c.ok, input |-> input]
                   /\ apc' = "prompt"
              ELSE IF cmd = "r"
              THEN /\ task' = "rejected"
                   /\ head' = r.head /\ index' = r.index /\ work' = r.work
                   /\ backups' = r.backups
                   /\ lastCmd' = [name |-> "reject", ok |-> r.ok, input |-> input]
                   /\ apc' = "prompt"
              ELSE IF cmd \in {"A", "all"}
              THEN /\ task' = "rejected"
                   /\ head' = r.head /\ index' = r.index /\ work' = r.work
                   /\ backups' = r.backups
                   /\ lastCmd' = [name |-> "all", ok |-> r.ok, input |-> input]
                   /\ apc' = "exited"
              ELSE /\ UNCHANGED <<task, head, index, work, backups>>
                   /\ lastCmd' = [name |-> cmd, ok |-> TRUE, input |-> input]
                   /\ apc' = IF cmd = "q" THEN "exited" ELSE "prompt"
    /\ UNCHANGED <<llmVars, sessVars, convVars, impl, mode, now, wpc, response, decision, phaseIdx,
                   changeIdx, trace, failure, snapshot, proposed, completedTasks, prompts>>

(* StartInteractiveChat: the response stream has ended. *)
EndOfResponse ==
    /\ mode = "chat"
    /\ apc = "running"
    /\ wpc = "closed"
    /\ apc' = "choice"
    /\ wpc' = "none"
    /\ response' = NoResponse
    /\ decision' = NoDecision
    /\ phaseIdx' = 0
    /\ changeIdx' = 0
    /\ trace' = <<>>
    /\ failure' = NoErr
    /\ UNCHANGED <<llmVars, sessVars, convVars, impl, mode, head, index, work, backups, now,
                   snapshot, proposed, task, completedTasks, prompts, lastCmd>>

(* The changes as a caller of HandleConfirmation may hold them: those of   *)
(* the decision, each with no backup path or with the path of a backup of  *)
(* its file.                                                               *)
PathsOf(f) == {NoPath} \cup {e.path : e \in {x \in backups : x.path[2] = f}}
HeldChanges ==
    {chs \in [1..Len(proposed) -> {Change(f, p) : f \in Files, p \in {NoPath} \cup {e.path : e \in backups}}] :
        \A i \in 1..Len(proposed) :
            /\ chs[i].FilePath = proposed[i].FilePath
            /\ chs[i].Backup \in PathsOf(proposed[i].FilePath)}

(* HandleConfirmation, "no": restore every change that names a backup and  *)
(* remove the backup; the first failure ends the call.  The restores tried *)
(* are recorded in order.                                                  *)
Restores(ok, w, b, evs) == [ok |-> ok, work |-> w, backups |-> b, events |-> evs]
RECURSIVE restoreAll(_, _, _)
restoreAll(chs, acc, io) ==
    IF chs = <<>> THEN acc
    ELSE LET ch == Head(chs)
             rs == restoreBackup(acc.work, acc.backups, ch.FilePath, ch.Backup, io)
             evs == Append(acc.events, Event("restore", ch.FilePath, rs.ok, "confirmation", ch.Backup))
         IN  IF ch.Backup = NoPath THEN restoreAll(Tail(chs), acc, io)
             ELSE IF ~rs.ok THEN Restores(FALSE, acc.work, acc.backups, evs)
             ELSE restoreAll(Tail(chs),
                             Restores(TRUE, rs.work,
                                      {e \in rs.backups : e.path # ch.Backup}, evs), io)

(* The paths of the changes that name a backup, in order. *)
HasBackup(ch) == ch.Backup # NoPath
BackedUp(chs) == [i \in 1..Len(SelectSeq(chs, HasBackup)) |-> SelectSeq(chs, HasBackup)[i].FilePath]

HandleConfirmation ==
    /\ mode = "chat"
    /\ apc = "choice"
    /\ \E conf \in {"yes", "no", "maybe"}, chs \in HeldChanges, io1 \in BOOLEAN, io2 \in BOOLEAN :
          LET c == commit(head, index, work, backups, io1, io2)
              called == <<Event("confirmation", BackedUp(chs), TRUE, conf, NoPath)>>
              rs == restoreAll(chs, Restores(TRUE, work, backups, called), io1)
              r == reset(head, index, rs.work, rs.backups, io2)
              named == {chs[i].Backup : i \in 1..Len(chs)}
          IN  IF conf = "yes"
              THEN /\ head' = c.head /\ index' = c.index /\ work' = c.work
                   /\ backups' = IF c.ok THEN {e \in c.backups : e.path \notin named}
                                 ELSE c.backups
                   /\ lastCmd' = [name |-> "yes", ok |-> c.ok, input |-> conf]
                   /\ UNCHANGED trace
              ELSE IF conf = "no"
              THEN IF ~rs.ok
                   THEN /\ work' = rs.work /\ backups' = rs.backups
                        /\ UNCHANGED <<head, index>>
                        /\ lastCmd' = [name |-> "no", ok |-> FALSE, input |-> conf]
                        /\ trace' = rs.events
                   ELSE /\ head' = r.head /\ index' = r.index /\ work' = r.work
                        /\ backups' = r.backups
                        /\ lastCmd' = [name |-> "no", ok |-> r.ok, input |-> conf]
                        /\ trace' = Append(rs.events,
                                           Event("git", "reset", r.ok, "confirmation", NoPath))
              ELSE /\ UNCHANGED <<head, index, work, backups, trace>>
                   /\ lastCmd' = [name |-> "invalid", ok |-> FALSE, input |-> conf]
    /\ apc' = "prompt"
    /\ UNCHANGED <<llmVars, sessVars, convVars, impl, mode, now, wpc, response, decision, phaseIdx,
                   changeIdx, failure, snapshot, proposed, task, completedTasks,
                   prompts>>

(* Copilot.New, then StartAgentMode or StartInteractiveChat, in a          *)
(* workspace whose files stand in any of the ways above.                   *)
InitCopilot ==
    /\ InitLLMVars
    /\ sysCalls = <<>>
    /\ lastOp = "NewClient"
    /\ convOps = 0
    /\ convCalls = <<>>
    /\ impl \in {"phased", "single"}
    /\ mode \in {"agent", "chat"}
    /\ conversation = IF mode = "agent" THEN ClientAddSystemMessage(<<>>, agentModeMsg) ELSE <<>>
    /\ \E s \in Workspaces :
          /\ head = [f \in Files |-> HeadOf(s[f])]
          /\ index = [f \in Files |-> HeadOf(s[f])]
          /\ work = [f \in Files |-> WorkOf(s[f])]
    /\ backups = {}
    /\ now = 0
    /\ apc = "prompt"
    /\ wpc = "none"
    /\ response = NoResponse
    /\ decision = NoDecision
    /\ phaseIdx = 0
    /\ changeIdx = 0
    /\ trace = <<>>
    /\ failure = NoErr
    /\ snapshot = [f \in Files |-> Unset]
    /\ proposed = <<>>
    /\ task = "none"
    /\ completedTasks = <<>>
    /\ prompts = 0
    /\ lastCmd = NoCmd
    /\ InitSessVars

Init ==
    /\ backend = AnyBackend
    /\ InitCopilot

Next ==
    \/ ProcessPrompt
    \/ getInitialDecision
    \/ handleAnalysisPhase
    \/ handleContextPhase
    \/ handleModificationPhase
    \/ ApplyChange
    \/ handleVerificationPhase
    \/ PhaseResponse
    \/ AutoFixCode
    \/ UpdateAgentState
    \/ OperatorCommand
    \/ EndOfResponse
    \/ HandleConfirmation

Spec == Init /\ [][Next]_vars

----------------------------------------------------------------------------
(* The agent loop over several prompts, with an LLM that answers prose:    *)
(* its output holds no line of the decision format.                        *)
ProseBackend == Output(FALSE, <<<<"a">>>>)

InitLoop ==
    /\ backend = ProseBackend
    /\ mode = "agent"
    /\ InitCopilot

NextLoop ==
    \/ ProcessPrompt
    \/ getInitialDecision
    \/ PhaseResponse
    \/ UpdateAgentState
    \/ OperatorCommand

SpecLoop == InitLoop /\ [][NextLoop]_vars

----------------------------------------------------------------------------
(* The streaming callback of ProcessPrompt: each chunk the LLM client      *)
(* delivers goes through Registry.ParseToolCall.  A chunk is the text      *)
(* before a JSON object, the object (or none), and the text after it.      *)
Blank == {<<>>, <<" ">>}
Surround == Blank \cup {<<"x">>}
NoObject == [tool |-> "", op |-> ""]
Objects == {[tool |-> "git", op |-> "diff"], [tool |-> "git", op |-> "status"],
            [tool |-> "nosuch", op |-> "diff"]}
Chunk(b, o, a) == [before |-> b, object |-> o, after |-> a]
Chunks == {Chunk(b, o, a) : b \in Surround, o \in Objects \cup {NoObject}, a \in Surround}

(* The tools Copilot.New registers. *)
RegisteredTools == {"grep_search", "run_terminal", "git", "filesystem",
                    "language_detector", "linter"}

(* json.Unmarshal of the whole chunk into the call struct: the chunk must  *)
(* be one JSON value, with nothing but white space around it.              *)
Unmarshals(chunk) ==
    chunk.object # NoObject /\ chunk.before \in Blank /\ chunk.after \in Blank

(* Registry.ParseToolCall *)
ParseToolCall(chunk) ==
    IF Unmarshals(chunk) /\ chunk.object.tool \in RegisteredTools
    THEN ToolCall(chunk.object.tool, chunk.object.op, "")
    ELSE NoToolCall

(* The outcomes of one call of the callback: the tool call executed (or    *)
(* none) and what is sent to respChan.  A chunk that is no tool call is    *)
(* sent unless the select takes the cancelled context.                     *)
CallbackOutcome(chunk, tc, shown) ==
    [chunk |-> chunk, executed |-> tc, ok |-> tc # NoToolCall /\ Executes(tc),
     shown |-> shown]
callback(chunk, done) ==
    LET tc == ParseToolCall(chunk)
    IN  IF tc # NoToolCall
        THEN {CallbackOutcome(chunk, tc, "Tool result")}
        ELSE {CallbackOutcome(chunk, NoToolCall, "chunk")} \cup
             (IF done THEN {CallbackOutcome(chunk, NoToolCall, "nothing")} ELSE {})

(* The LLM client delivers one more chunk to the callback. *)
Callback ==
    /\ Len(cbLog) < MaxChunks
    /\ \E chunk \in Chunks : \E r \in callback(chunk, ctxDone) :
          cbLog' = Append(cbLog, r)
    /\ UNCHANGED <<parseVars, agentVars, ctxDone, mu, wk, reading, llmVars, convVars, copVars>>

(* Copilot.Shutdown: cancel the session context. *)
Shutdown ==
    /\ ~ctxDone
    /\ ctxDone' = TRUE
    /\ UNCHANGED <<parseVars, agentVars, cbLog, mu, wk, reading, llmVars, convVars, copVars>>

InitCallback ==
    /\ backend = AnyBackend
    /\ InitLLMVars
    /\ InitConvVars
    /\ InitCopVars
    /\ InitSessVars

NextCallback ==
    \/ Callback
    \/ Shutdown

SpecCallback == InitCallback /\ [][NextCallback]_vars

----------------------------------------------------------------------------
(* A session: ProcessPrompt calls that may overlap, each with its worker   *)
(* goroutine and its unbuffered respChan, the caller that receives from    *)
(* it, and the session context.  Phased implementation.                    *)

(* A send on respChan outside a select: it completes when the caller       *)
(* receives, whatever the state of the context.                            *)
Sent(w, pc, ph) == [wk EXCEPT ![w] = Worker(pc, ph, @.late \/ ctxDone)]
Moved(w, pc, ph) == [wk EXCEPT ![w] = Worker(pc, ph, @.late)]

(* ProcessPrompt: c.mu.Lock(), then either an auto-fix request or the      *)
(* setup up to AddSystemMessage.                                           *)
LockSession(w) ==
    /\ wk[w].pc = "idle"
    /\ mu = 0
    /\ mu' = w
    /\ \E autofix \in BOOLEAN :
          wk' = Moved(w, IF autofix THEN "isAutoFixRequest" ELSE "AddSystemMessage", 0)
    /\ UNCHANGED <<parseVars, agentVars, ctxDone, cbLog, reading, llmVars, convVars, copVars>>

(* ProcessPrompt: AddSystemMessage has returned; go func(), return, and    *)
(* the deferred c.mu.Unlock().                                             *)
StartWorker(w) ==
    /\ wk[w].pc \in {"isAutoFixRequest", "AddSystemMessage"}
    /\ mu = w
    /\ mu' = 0
    /\ wk' = Moved(w, IF wk[w].pc = "isAutoFixRequest" THEN "autofix" ELSE "decide", 0)
    /\ UNCHANGED <<parseVars, agentVars, ctxDone, cbLog, reading, llmVars, convVars, copVars>>

(* The auto-fix worker: AutoFixCode sends its output and returns nil or an *)
(* error.                                                                  *)
AutoFix(w) ==
    /\ wk[w].pc = "autofix"
    /\ reading[w]
    /\ \E failed \in BOOLEAN :
          wk' = Sent(w, IF failed THEN "error" ELSE "return", 0)
    /\ UNCHANGED <<parseVars, agentVars, ctxDone, cbLog, mu, reading, llmVars, convVars, copVars>>

(* The worker calls getInitialDecision, which calls SendMessageWithCallback. *)
BeginDecision(w) ==
    /\ wk[w].pc = "decide"
    /\ wk' = Moved(w, "getInitialDecision", 0)
    /\ UNCHANGED <<parseVars, agentVars, ctxDone, cbLog, mu, reading, llmVars, convVars, copVars>>

(* getInitialDecision returns an error, or a decision with its phase. *)
EndDecision(w) ==
    /\ wk[w].pc = "getInitialDecision"
    /\ \/ wk' = Moved(w, "error", 0)
       \/ \E k \in 1..Len(Phases) : wk' = Moved(w, "header", k)
    /\ UNCHANGED <<parseVars, agentVars, ctxDone, cbLog, mu, reading, llmVars, convVars, copVars>>

(* A worker that returns after an error text without closing the stream. *)
PublishNoClose(w) ==
    /\ wk[w].pc \in {"error", "header", "proceed"}
    /\ reading[w]
    /\ wk' = IF wk[w].pc = "error" THEN Sent(w, "returned", wk[w].phase)
             ELSE IF wk[w].pc = "header" THEN Sent(w, "handler", wk[w].phase)
             ELSE Sent(w, "header", wk[w].phase + 1)
    /\ UNCHANGED <<parseVars, agentVars, ctxDone, cbLog, mu, reading, llmVars, convVars, copVars>>

(* The worker's sends of an error text, a phase header and the question    *)
(* before the next phase.                                                  *)
Publish(w) ==
    /\ wk[w].pc \in {"error", "header", "proceed"}
    /\ reading[w]
    /\ wk' = IF wk[w].pc = "error" THEN Sent(w, "return", wk[w].phase)
             ELSE IF wk[w].pc = "header" THEN Sent(w, "handler", wk[w].phase)
             ELSE Sent(w, "header", wk[w].phase + 1)
    /\ UNCHANGED <<parseVars, agentVars, ctxDone, cbLog, mu, reading, llmVars, convVars, copVars>>

(* The phase handler: it sends its output and returns nil or an error. *)
RunHandler(w) ==
    /\ wk[w].pc = "handler"
    /\ reading[w]
    /\ \E failed \in BOOLEAN :
          wk' = Sent(w, IF failed THEN "error" ELSE "send", wk[w].phase)
    /\ UNCHANGED <<parseVars, agentVars, ctxDone, cbLog, mu, reading, llmVars, convVars, copVars>>

(* The worker calls SendMessageWithCallback for the phase. *)
BeginSend(w) ==
    /\ wk[w].pc = "send"
    /\ wk' = Moved(w, "SendMessageWithCallback", wk[w].phase)
    /\ UNCHANGED <<parseVars, agentVars, ctxDone, cbLog, mu, reading, llmVars, convVars, copVars>>

(* The chunks a call may deliver here: a text, or a tool call on its own. *)
SessionChunks == {Chunk(<<"x">>, NoObject, <<>>), Chunk(<<>>, [tool |-> "git", op |-> "diff"], <<>>)}

(* The LLM client delivers a chunk to the callback: a tool result is sent  *)
(* outside a select, a text inside the select on ctx.Done().               *)
DeliverChunk(w) ==
    /\ wk[w].pc = "SendMessageWithCallback"
    /\ \E chunk \in SessionChunks : \E r \in callback(chunk, ctxDone) :
          IF r.shown = "nothing"
          THEN wk' = Moved(w, "delivered", wk[w].phase)
          ELSE /\ reading[w]
               /\ wk' = Sent(w, "delivered", wk[w].phase)
    /\ UNCHANGED <<parseVars, agentVars, ctxDone, cbLog, mu, reading, llmVars, convVars, copVars>>

(* SendMessageWithCallback returns the response or an error. *)
EndSend(w) ==
    /\ wk[w].pc \in {"SendMessageWithCallback", "delivered"}
    /\ \E failed \in BOOLEAN :
          wk' = Moved(w, IF failed THEN "error" ELSE "update", wk[w].phase)
    /\ UNCHANGED <<parseVars, agentVars, ctxDone, cbLog, mu, reading, llmVars, convVars, copVars>>

(* The worker calls UpdateConversation. *)
BeginUpdate(w) ==
    /\ wk[w].pc = "update"
    /\ wk' = Moved(w, "UpdateConversation", wk[w].phase)
    /\ UNCHANGED <<parseVars, agentVars, ctxDone, cbLog, mu, reading, llmVars, convVars, copVars>>

(* UpdateConversation returns; on to the next phase, or out of the loop. *)
EndUpdate(w) ==
    /\ wk[w].pc = "UpdateConversation"
    /\ wk' = Moved(w, IF wk[w].phase < Len(Phases) THEN "proceed" ELSE "return", wk[w].phase)
    /\ UNCHANGED <<parseVars, agentVars, ctxDone, cbLog, mu, reading, llmVars, convVars, copVars>>

(* The worker returns: the deferred close(respChan). *)
CloseStream(w) ==
    /\ wk[w].pc = "return"
    /\ wk' = Moved(w, "closed", wk[w].phase)
    /\ UNCHANGED <<parseVars, agentVars, ctxDone, cbLog, mu, reading, llmVars, convVars, copVars>>

(* The caller of ProcessPrompt stops receiving from the stream. *)
StopReading(w) ==
    /\ wk[w].pc \notin {"idle", "isAutoFixRequest", "AddSystemMessage"}
    /\ reading[w]
    /\ reading' = [reading EXCEPT ![w] = FALSE]
    /\ UNCHANGED <<parseVars, agentVars, ctxDone, cbLog, mu, wk, llmVars, convVars, copVars>>

InitSession ==
    /\ backend = AnyBackend
    /\ InitLLMVars
    /\ InitConvVars
    /\ InitCopVars
    /\ InitSessVars

NextSession ==
    \/ \E w \in Calls :
          \/ LockSession(w)
          \/ StartWorker(w)
          \/ AutoFix(w)
          \/ BeginDecision(w)
          \/ EndDecision(w)
          \/ Publish(w)
          \/ RunHandler(w)
          \/ BeginSend(w)
          \/ DeliverChunk(w)
          \/ EndSend(w)
          \/ BeginUpdate(w)
          \/ EndUpdate(w)
          \/ CloseStream(w)
          \/ StopReading(w)
    \/ Shutdown

SpecSession == InitSession /\ [][NextSession]_vars

(* The steps of call w that the scheduler runs: ProcessPrompt once it has  *)
(* the lock, and the worker goroutine.  Every call the worker makes        *)
(* returns.                                                                *)
WorkerStep(w) ==
    \/ StartWorker(w)
    \/ AutoFix(w)
    \/ BeginDecision(w)
    \/ EndDecision(w)
    \/ Publish(w)
    \/ RunHandler(w)
    \/ BeginSend(w)
    \/ DeliverChunk(w)
    \/ EndSend(w)
    \/ BeginUpdate(w)
    \/ EndUpdate(w)
    \/ CloseStream(w)

FairSpecSession == SpecSession /\ \A w \in Calls : WF_vars(WorkerStep(w))

----------------------------------------------------------------------------
(* Claims about the session *)

(* The worker of call w is inside an operation on the conversation. *)
InConversation(w) ==
    wk[w].pc \in {"getInitialDecision", "SendMessageWithCallback", "delivered",
                  "UpdateConversation"}

(* C19: when ProcessPrompt is called again before the first call's stream  *)
(* has closed, the two workers are never inside an operation on the        *)
(* conversation at the same time.                                          *)
C19_WorkersSerialised ==
    \A v \in Calls, w \in Calls : (InConversation(v) /\ InConversation(w)) => v = w

(* C21: for every ProcessPrompt call, as long as its consumer keeps        *)
(* reading, the worker eventually closes the result stream, on every path; *)
(* and once the stream is closed the worker does nothing more: it closes   *)
(* once and sends nothing after the close.                                 *)
C21_StreamEventuallyClosed ==
    /\ \A w \in Calls :
          (wk[w].pc # "idle" /\ reading[w]) ~> (wk[w].pc = "closed" \/ ~reading[w])
    /\ [][\A w \in Calls : wk[w].pc = "closed" => wk'[w] = wk[w]]_vars

C21_Witness ==
    \E v \in Calls, w \in Calls :
        /\ wk[v].pc = "closed" /\ wk[v].phase = Len(Phases) /\ reading[v]
        /\ wk[w].pc = "closed" /\ wk[w].phase = 0 /\ reading[w]

(* C20: once the session context is cancelled the worker sends nothing     *)
(* more to the result stream: no phase header, handler output, tool result *)
(* or error text.                                                          *)
C20_NothingSentAfterCancel ==
    \A w \in Calls : ~wk[w].late

----------------------------------------------------------------------------
(* Claims about the streaming callback *)

GitDiff == [tool |-> "git", op |-> "diff"]
Embedded(chunk) ==
    chunk.object = GitDiff /\ (chunk.before # <<>> \/ chunk.after # <<>>)

(* C12: a chunk that holds the object {"tool":"git","args":{"operation":   *)
(* "diff"}} with other text before or after it is resolved to a call of    *)
(* the git tool with operation diff, the tool is executed, and the chunk   *)
(* is not sent to the result stream as text.                               *)
C12_EmbeddedToolCallResolved ==
    \A i \in 1..Len(cbLog) :
        Embedded(cbLog[i].chunk)
        => /\ cbLog[i].executed = ToolCall("git", "diff", "")
           /\ cbLog[i].ok
           /\ cbLog[i].shown # "chunk"

----------------------------------------------------------------------------
(* Claims about the conversation store *)

SystemEntries(conv) == SelectSeq(conv, IsSystem)

(* C10: after an AddSystemMessage call, whichever way it is issued, the    *)
(* conversation holds exactly one system entry, with the content of that   *)
(* call.                                                                   *)
C10_OneSystemMessage ==
    lastOp \in {"AddSystemMessage", "ChatHandler.AddSystemMessage"}
    => SystemEntries(conversation) = <<Message("system", sysCalls[Len(sysCalls)])>>

(* The entries appended by the calls so far: the n-th call appends         *)
(* messages of content n.                                                  *)
RECURSIVE AppendedBy(_)
AppendedBy(calls) ==
    IF calls = <<>> THEN <<>>
    ELSE LET n == Len(calls)
         IN  AppendedBy(SubSeq(calls, 1, n - 1)) \o
             (IF calls[n] = "UpdateConversation"
              THEN <<Message("user", n), Message("assistant", n)>>
              ELSE <<Message("system", n)>>)

PlainCalls ==
    \A i \in 1..Len(convCalls) : convCalls[i] \in {"UpdateConversation", "AddSystemMessage"}

LastEntries(s, n) == SubSeq(s, Len(s) - n + 1, Len(s))

(* C11: after any sequence of UpdateConversation and AddSystemMessage      *)
(* calls the conversation holds at most 10 entries, and once 11 or more    *)
(* entries have been appended it is exactly the last 10 of them, in the    *)
(* order they were appended.                                               *)
C11_KeepsLastTen ==
    PlainCalls
    => /\ Len(conversation) <= MaxConversation
       /\ Len(AppendedBy(convCalls)) > MaxConversation
          => conversation = LastEntries(AppendedBy(convCalls), MaxConversation)

C11_Witness ==
    /\ PlainCalls
    /\ Len(AppendedBy(convCalls)) > MaxConversation + 1
    /\ \E i \in 1..Len(convCalls) : convCalls[i] = "AddSystemMessage"
    /\ \E i \in 1..Len(convCalls) : convCalls[i] = "UpdateConversation"
    /\ Len(conversation) = MaxConversation

----------------------------------------------------------------------------
(* Claims about the LLM client *)

Returned == cpc \in {"done", "returned"}

(* C6: for both provider types, in Complete and in Stream, a 404 answer to *)
(* the first request to /v1/chat/completions is followed by exactly one    *)
(* further request, to the provider-native endpoint, before the call       *)
(* returns.                                                                *)
C6_OneNativeFallback ==
    (/\ provider \in {"OpenAI", "Ollama"}
     /\ Returned
     /\ Len(requests) >= 1
     /\ requests[1].status = StatusNotFound)
    => (/\ Len(requests) = 2
        /\ requests[2].url \in NativeURLs)

(* C7: every call returns after a bounded number of HTTP requests, also    *)
(* when every request fails: a call that has issued as many requests as    *)
(* the model follows has returned.                                         *)
C7_CascadeIsFinite ==
    Len(requests) >= MaxRequests => Returned

(* The fragments a streamed body carries up to the line that ends the      *)
(* stream: the non-empty contents of its complete data lines, in order.    *)
RECURSIVE arrived(_, _)
arrived(b, i) ==
    IF i > Len(b.lines) \/ (i = Len(b.lines) /\ ~b.eofNL) THEN <<>>
    ELSE IF b.lines[i][1] \in {"done", "bad", "apierr", "ioerr"} THEN <<>>
    ELSE IF b.lines[i][1] = "data" /\ b.lines[i][2] # <<>>
         THEN <<b.lines[i][2]>> \o arrived(b, i + 1)
         ELSE arrived(b, i + 1)

(* C8: in a streaming call every non-empty fragment decoded is passed to   *)
(* the callback exactly once and in order, and the text returned by        *)
(* SendMessageWithCallback, on success and on a mid-stream error alike,    *)
(* is the concatenation of the fragments passed to the callback.           *)
C8_ReturnedTextIsConcatOfDelivered ==
    (cpc = "returned" /\ streaming /\ body.kind = "sse")
    => (/\ delivered = arrived(body, 1)
        /\ ret.text = Concat(delivered))

(* C9: on the same backend output Stream and Complete have the same        *)
(* outcome: the same text, and an error in one exactly when in the other.  *)
C9_StreamEqualsComplete ==
    (last[TRUE].set /\ last[FALSE].set)
    => (/\ last[TRUE].text = last[FALSE].text
        /\ last[TRUE].failed = last[FALSE].failed)

----------------------------------------------------------------------------
(* Claims about the copilot *)

Rejected == lastCmd.name \in {"reject", "no"} /\ lastCmd.ok

(* C1: once the modification phase has written a file and the operator has *)
(* rejected (the r command of the agent loop, or HandleConfirmation with   *)
(* "no") and the rejection's git operation succeeded, the file holds the   *)
(* bytes it held just before the modification phase wrote it, uncommitted  *)
(* edits included.  (The claim adds that no diff remains; the bytes alone  *)
(* are stated here.)                                                       *)
C1_RejectRestoresBytes ==
    Rejected => \A f \in Files : snapshot[f] # Unset => work[f] = snapshot[f]

IsModificationWrite(e) == e.kind = "write" /\ e.by \in {PhaseModification, "autofix"}

(* C2: whenever the modification phase issues the write of a change, the   *)
(* Backup field of that change holds the path of the backup taken for it.  *)
C2_BackupPathPopulated ==
    \A i \in 1..Len(trace) :
        (trace[i].kind = "write" /\ trace[i].by = PhaseModification)
        => trace[i].backup # NoPath

(* The last backup of the file of event i attempted before it, 0 if none. *)
LastBackupBefore(i) ==
    LET js == {j \in 1..(i - 1) : trace[j].kind = "backup" /\ trace[j].arg = trace[i].arg}
    IN  IF js = {} THEN 0 ELSE CHOOSE j \in js : \A k \in js : k <= j

(* C3: in the modification phase and in auto-fix a write to a file is      *)
(* issued only after a successful backup of that file in the same pass:    *)
(* the backup attempted last before the write succeeded.                   *)
C3_WriteOnlyAfterBackup ==
    \A i \in 1..Len(trace) :
        IsModificationWrite(trace[i])
        => (LastBackupBefore(i) # 0 /\ trace[LastBackupBefore(i)].ok)

Answered == wpc \in {"handler", "change", "respond", "closed"}
               /\ failure # "failed to get initial decision"
               /\ response # NoResponse

(* C4: a decision whose Action or Reasoning is missing, empty or N/A is    *)
(* rejected with a validation error, and no handler or tool runs for it.   *)
C4_EmptyFieldsRejected ==
    (Answered /\ (~Meaningful(response.action) \/ ~Meaningful(response.reasoning)))
    => (failure = "invalid decision" /\ trace = <<>>)

(* C15: in the agent loop each input offered for reject-all, "A" as the    *)
(* menu prints it and "all", marks the task rejected, resets the working   *)
(* tree and ends the loop, and never commits.                              *)
C15_RejectAllInputs ==
    (mode = "agent" /\ lastCmd.input \in {"A", "all"})
    => /\ lastCmd.name = "all"
       /\ task = "rejected"
       /\ apc = "exited"

(* C16: a task the operator rejected is still rejected when it stands in   *)
(* completedTasks, after any number of further iterations.                 *)
C16_RejectedStaysRejected ==
    \A i \in 1..Len(completedTasks) :
        completedTasks[i].was = "rejected" => completedTasks[i].Status = "rejected"

ReadOnlyCommands == {"d", "s", "p"}

(* C17: handling diff, summary or progress issues no LLM request, runs no  *)
(* phase, writes no file and leaves the current task and completedTasks    *)
(* as they are; and the loop then takes the operator's next command on     *)
(* the same task: no ProcessPrompt is issued in between.                   *)
C17_ReadOnlyCommands ==
    [][/\ (lastCmd'.name \in ReadOnlyCommands /\ lastCmd' # lastCmd)
          => UNCHANGED <<prompts, conversation, trace, work, task, completedTasks>>
       /\ lastCmd.name \in ReadOnlyCommands
          => UNCHANGED <<prompts, conversation>>]_vars

InProgress ==
    Cardinality({i \in 1..Len(completedTasks) : completedTasks[i].Status = "in_progress"})
    + (IF task = "in_progress" THEN 1 ELSE 0)

(* C18: the agent loop issues a ProcessPrompt only when the stream of the  *)
(* previous prompt has been closed and read to its end and the operator's  *)
(* command for it has been handled; and at most one task is in progress    *)
(* in every reachable state.                                               *)
C18_LoopIsSequential ==
    /\ [](InProgress <= 1)
    /\ [][prompts' # prompts
           => /\ wpc = "none"
              /\ apc = "prompt"
              /\ prompts > 0 => lastCmd.name # "none"]_vars

C18_Witness ==
    /\ prompts >= 2
    /\ apc = "choice"
    /\ task = "in_progress"
    /\ Len(completedTasks) >= 1

BackupFailedAt(i) ==
    trace[i].kind = "backup" /\ trace[i].by = PhaseModification /\ ~trace[i].ok
HandlerStillRunning(i) ==
    \A j \in (i + 1)..Len(trace) : trace[j].by \in {PhaseModification, "rollback"}

(* C14: in the phased handler, when the backup of a change fails in the    *)
(* modification phase, that change's file is not written, and when the     *)
(* handler returns every file written earlier in the phase holds the bytes *)
(* it had when the phase started, whatever the outcome of the rollback's   *)
(* reset and whether or not the file carried uncommitted edits.            *)
C14_BackupFailureUndoesPhase ==
    \A i \in 1..Len(trace) :
        (impl = "phased" /\ BackupFailedAt(i) /\ HandlerStillRunning(i))
        => /\ \A j \in (i + 1)..Len(trace) : trace[j].kind # "write"
           /\ (wpc = "closed" => \A f \in Files : snapshot[f] # Unset => work[f] = snapshot[f])

IsRestore(e) == e.kind = "restore"
RestoresTried == [i \in 1..Len(SelectSeq(trace, IsRestore)) |-> SelectSeq(trace, IsRestore)[i].arg]

(* C13: on reject through HandleConfirmation, a restore is attempted for   *)
(* every change that names a backup, in order, also after one of them has  *)
(* failed, and the hard reset is run after them.                           *)
C13_RejectRestoresEveryChange ==
    lastCmd.name = "no"
    => /\ RestoresTried = trace[1].arg
       /\ trace[Len(trace)] \in {Event("git", "reset", ok, "confirmation", NoPath) : ok \in BOOLEAN}

IsHandler(e) == e.kind = "handler"
HandlersRun == [i \in 1..Len(SelectSeq(trace, IsHandler)) |-> SelectSeq(trace, IsHandler)[i].arg]

IsPrefix(s, t) == Len(s) <= Len(t) /\ SubSeq(t, 1, Len(s)) = s
PhasesFrom(p) == SubSeq(Phases, PhaseIndex(p), Len(Phases))

(* C5: the handlers are invoked in the fixed order analysis, context,      *)
(* modification, verification, starting at the decision's phase: none      *)
(* before it, none twice, never out of order; and when no handler or LLM   *)
(* call fails, every phase from it through verification runs exactly once. *)
C5_HandlersInOrder ==
    isValidPhase(decision.Phase)
    => /\ IsPrefix(HandlersRun, PhasesFrom(decision.Phase))
       /\ (wpc = "closed" /\ failure = NoErr) => HandlersRun = PhasesFrom(decision.Phase)

(* C22: in the phased implementation, on accept, once the commit has been made, every backup copy taken  *)
(* for the task, by the modification phase and by the agent loop's backup  *)
(* step, has been removed from the backup directory.                       *)
C22_AcceptDiscardsBackups ==
    (impl = "phased" /\ apc = "prompt" /\ lastCmd.name \in {"accept", "yes"} /\ lastCmd.ok)
    => backups = {}

(* C23: when the agent loop's backup step returns, every tracked file that *)
(* git status reports as modified or added has a copy with the same bytes  *)
(* under the step's timestamped backup directory at the same relative      *)
(* path, and the step has made no copy of an untracked file.               *)
C23_BackupStepCopiesChangedTracked ==
    [][(mode = "agent" /\ apc = "running" /\ apc' = "choice")
       => \E t \in Stamps :
             /\ \A f \in Files :
                   (ChangedTracked(head, index, work, f) /\ work[f] # Absent)
                   => \E e \in backups' : e.path = BackupPath(t, f) /\ e.content = work[f]
             /\ \A e \in backups' \ backups : Tracked(head, index, e.path[2])]_vars

ToolFailedAt(i) ==
    /\ trace[i].kind \in {"read", "write", "grep_search", "git"}
    /\ trace[i].by \in {PhaseAnalysis, PhaseContext, PhaseModification}
    /\ ~trace[i].ok

(* C24: in the phased handlers, a tool invocation that fails inside a      *)
(* phase (a filesystem read or write, a grep, a git add) does not abort    *)
(* the phase: the handler returns no error because of it.                  *)
C24_ToolFailureDoesNotAbortPhase ==
    (impl = "phased" /\ \E i \in 1..Len(trace) : ToolFailedAt(i))
    => failure \notin {"file read failed", "file write failed"}

(* The first line of a streamed body at which the read loop stops is a     *)
(* payload that is not JSON.                                               *)
StopsAtUndecodable(b) ==
    \E i \in 1..Len(b.lines) :
        /\ b.lines[i][1] = "bad"
        /\ (i < Len(b.lines) \/ b.eofNL)
        /\ \A j \in 1..(i - 1) : b.lines[j][1] \notin {"done", "bad", "apierr", "ioerr"}

(* C25: when a streamed payload cannot be decoded, the stream is aborted   *)
(* at that payload, no later fragment is delivered, and the caller of      *)
(* SendMessageWithCallback receives the error together with the text of    *)
(* the fragments delivered before it.                                      *)
C25_UndecodablePayloadKeepsText ==
    (cpc = "returned" /\ streaming /\ body.kind = "sse" /\ StopsAtUndecodable(body))
    => (/\ ret.err = "error parsing chunk"
        /\ delivered = arrived(body, 1)
        /\ ret.text = Concat(delivered))

(* The content an SSE body carries: the fragments of its data lines up to  *)
(* the first [DONE] or the end of input, the last line included whether or *)
(* not a newline ends it.                                                  *)
RECURSIVE carried(_, _)
carried(b, i) ==
    IF i > Len(b.lines) \/ b.lines[i][1] = "done" THEN <<>>
    ELSE IF b.lines[i][1] = "data" THEN b.lines[i][2] \o carried(b, i + 1)
    ELSE carried(b, i + 1)

WellFormed(b) == \A i \in 1..Len(b.lines) : b.lines[i][1] \in {"data", "blank", "other", "done"}

(* C26: for an SSE stream of data lines, blank lines, lines without the    *)
(* prefix and [DONE], the returned text is the concatenation, in order, of *)
(* the fragments of every data line before the first [DONE] or the end of  *)
(* input, a last line without trailing newline included; it is also what   *)
(* was delivered to the callback.                                          *)
C26_SSETextIsCarriedContent ==
    (cpc = "returned" /\ streaming /\ body.kind = "sse" /\ WellFormed(body))
    => (/\ ret.err = NoErr
        /\ ret.text = carried(body, 1)
        /\ Concat(delivered) = ret.text)

(* C27: for the Ollama provider, in Complete and in Stream, when the       *)
(* attempt on /v1/chat/completions fails, exactly one native request       *)
(* follows: to /api/chat when the request carries more than one message,   *)
(* to /api/generate otherwise.                                             *)
C27_OllamaNativeFallback ==
    (/\ provider = "Ollama"
     /\ Returned
     /\ Len(requests) >= 1
     /\ NeedsFallback(requests[1].status))
    => (/\ Len(requests) = 2
        /\ requests[2].url = IF Len(conversation) + 1 > 1 THEN "/api/chat" ELSE "/api/generate")

----------------------------------------------------------------------------
(* The parsing of the decision text in getInitialDecision (phased).  A     *)
(* string is a sequence of tokens: words, and the characters the parser    *)
(* looks at.                                                               *)
NewLine == "\n"
White == {" ", NewLine}

(* strings.TrimSpace *)
RECURSIVE TrimLeft(_)
TrimLeft(s) == IF s # <<>> /\ Head(s) \in White THEN TrimLeft(Tail(s)) ELSE s
RECURSIVE TrimRight(_)
TrimRight(s) ==
    IF s # <<>> /\ s[Len(s)] \in White THEN TrimRight(SubSeq(s, 1, Len(s) - 1)) ELSE s
TrimSpace(s) == TrimRight(TrimLeft(s))

(* strings.SplitN and strings.Split *)
Has(s, sep) == \E i \in 1..Len(s) : s[i] = sep
First(s, sep) == CHOOSE i \in 1..Len(s) : s[i] = sep /\ \A j \in 1..(i - 1) : s[j] # sep
RECURSIVE SplitN(_, _, _)
SplitN(s, sep, n) ==
    IF n = 1 \/ ~Has(s, sep) THEN <<s>>
    ELSE <<SubSeq(s, 1, First(s, sep) - 1)>>
         \o SplitN(SubSeq(s, First(s, sep) + 1, Len(s)), sep, n - 1)
Split(s, sep) == SplitN(s, sep, Len(s) + 1)

(* A split that keeps every part as it is. *)
SplitOnly(s, delimiter) == Split(s, delimiter)

NotAvailable == <<"N/A">>
Kept(part) == part # <<>> /\ part # NotAvailable
Trimmed(parts) == [i \in 1..Len(parts) |-> TrimSpace(parts[i])]
splitAndTrim(s, delimiter) ==
    IF s = <<>> THEN <<>> ELSE SelectSeq(Trimmed(Split(s, delimiter)), Kept)

(* The Decision as parsed: Phase is a phase name, the other strings are    *)
(* texts.                                                                  *)
TextChange(f, d) == [FilePath |-> f, Description |-> d]
TextDecision(p, a, r, c, t, ch) ==
    [Phase |-> p, Action |-> a, Reasoning |-> r, Context |-> c, Tools |-> t, Changes |-> ch]

(* The changes of one Changes value. *)
RECURSIVE changesOf(_)
changesOf(changesList) ==
    IF changesList = <<>> THEN <<>>
    ELSE LET change == Head(changesList)
             changeParts == Split(change, "|")
         IN  IF change = <<>> \/ change = NotAvailable THEN changesOf(Tail(changesList))
             ELSE IF Len(changeParts) = 2
                  THEN <<TextChange(TrimSpace(changeParts[1]), TrimSpace(changeParts[2]))>>
                       \o changesOf(Tail(changesList))
                  ELSE changesOf(Tail(changesList))

(* One pass of the loop over the lines. *)
parseLine(d, raw) ==
    LET line == TrimSpace(raw)
        parts == SplitN(line, ":", 2)
        key == TrimSpace(parts[1])
        value == TrimSpace(parts[2])
    IN  IF line = <<>> \/ Len(parts) # 2 THEN d
        ELSE IF key = <<"Phase">>
             THEN IF Len(value) = 1 /\ isValidPhase(value[1]) THEN [d EXCEPT !.Phase = value[1]] ELSE d
        ELSE IF key = <<"Action">>
             THEN IF Kept(value) THEN [d EXCEPT !.Action = value] ELSE d
        ELSE IF key = <<"Reasoning">>
             THEN IF Kept(value) THEN [d EXCEPT !.Reasoning = value] ELSE d
        ELSE IF key = <<"Context">>
             THEN IF Kept(value) THEN [d EXCEPT !.Context = splitAndTrim(value, ",")] ELSE d
        ELSE IF key = <<"Tools">>
             THEN IF Kept(value) THEN [d EXCEPT !.Tools = splitAndTrim(value, ",")] ELSE d
        ELSE IF key = <<"Changes">>
             THEN IF Kept(value)
                  THEN [d EXCEPT !.Changes = @ \o changesOf(Split(value, NewLine))]
                  ELSE d
        ELSE d

RECURSIVE parseLines(_, _)
parseLines(d, lines) ==
    IF lines = <<>> THEN d ELSE parseLines(parseLine(d, Head(lines)), Tail(lines))

(* validateDecision on the parsed texts. *)
validateTexts(d) ==
    IF d.Phase = "" THEN "phase is required"
    ELSE IF d.Action = <<>> THEN "action is required"
    ELSE IF d.Reasoning = <<>> THEN "reasoning is required"
    ELSE NoErr

parseDecision(t) ==
    LET d == parseLines(TextDecision(PhaseAnalysis, <<>>, <<>>, <<>>, <<>>, <<>>),
                        Split(t, NewLine))
    IN  [done |-> TRUE, decision |-> d, err |-> validateTexts(d)]

(* The answers parsed: a header of optional Phase, Action, Reasoning and   *)
(* Context lines, an optional Changes line, and up to MaxChangeLines lines *)
(* after it; with or without a final newline.                              *)
MaxChangeLines == 2
GuardChange == <<"a.go", "|", "add", " ", "guard">>
PhaseLines == {<<"Phase", ":", " ", "modification">>, <<"Phase", ":", " ", "bogus">>}
ActionLines == {<<"Action", ":", " ", "fix", " ", "bug">>, <<"Action", ":", " ", "N/A">>}
ReasoningLines == {<<"Reasoning", ":", " ", "because">>}
ContextLines == {<<"Context", ":", " ", "a.go", ",", " ", "b.go">>}
ChangesLines == {<<"Changes", ":">>, <<"Changes", ":", " ", "N/A">>,
                 <<"Changes", ":", " ">> \o GuardChange}
LaterLines == {GuardChange, <<" ", "b.go", " ", "|", "fix">>, <<"note">>, <<>>}
Optional(S) == {<<>>} \cup {<<l>> : l \in S}

RECURSIVE Join(_)
Join(ls) ==
    IF ls = <<>> THEN <<>>
    ELSE IF Len(ls) = 1 THEN ls[1]
    ELSE ls[1] \o <<NewLine>> \o Join(Tail(ls))

ResponseLines ==
    {p \o a \o r \o c \o ch \o m :
        p \in Optional(PhaseLines), a \in Optional(ActionLines),
        r \in Optional(ReasoningLines), c \in Optional(ContextLines),
        ch \in Optional(ChangesLines), m \in SeqsUpTo(LaterLines, MaxChangeLines)}
ResponseTexts ==
    {Join(ls) \o e : ls \in ResponseLines, e \in {<<>>, <<NewLine>>}}

(* getInitialDecision from the end of the LLM call to its return. *)
ParseResponse ==
    /\ ~parsed.done
    /\ parsed' = parseDecision(text)
    /\ UNCHANGED <<text, agentVars, ctxDone, cbLog, mu, wk, reading, llmVars, convVars, copVars>>

InitParse ==
    /\ backend = AnyBackend
    /\ InitLLMVars
    /\ InitConvVars
    /\ InitCopVars
    /\ InitWorkers
    /\ text \in ResponseTexts
    /\ parsed = Unparsed

NextParse == ParseResponse

SpecParse == InitParse /\ [][NextParse]_vars

(* The example of the decision format. *)
ExampleText ==
    Join(<<<<"Phase", ":", " ", "modification">>,
           <<"Action", ":", " ", "fix", " ", "bug">>,
           <<"Reasoning", ":", " ", "because">>,
           <<"Context", ":", " ", "a.go", ",", " ", "b.go">>,
           <<"Changes", ":", " ">> \o GuardChange>>) \o <<NewLine>>

(* C28: the example text parses to phase modification, action "fix bug",   *)
(* reasoning "because", context [a.go, b.go] and exactly one change, a.go  *)
(* with description "add guard", and the Decision passes validation.       *)
C28_ExampleParses ==
    (text = ExampleText /\ parsed.done)
    => /\ parsed.decision =
              TextDecision(PhaseModification, <<"fix", " ", "bug">>, <<"because">>,
                           <<<<"a.go">>, <<"b.go">>>>, <<>>,
                           <<TextChange(<<"a.go">>, <<"add", " ", "guard">>)>>)
       /\ parsed.err = NoErr

C28_Witness == text = ExampleText /\ parsed.done

(* The changes a text lists: on its Changes line and on the lines after    *)
(* it, each line of the form path|description, in order.                   *)
IsChangesLine(l) == Len(TrimSpace(l)) >= 2 /\ SubSeq(TrimSpace(l), 1, 2) = <<"Changes", ":">>
ValueOf(l) == TrimSpace(SubSeq(TrimSpace(l), 3, Len(TrimSpace(l))))
WellFormedChange(l) == Len(Split(l, "|")) = 2
ListedAsChange(l) == TextChange(TrimSpace(Split(l, "|")[1]), TrimSpace(Split(l, "|")[2]))
ListedChanges(t) ==
    LET lines == Split(t, NewLine)
        at == CHOOSE i \in 1..Len(lines) : IsChangesLine(lines[i])
        listed == SelectSeq(<<ValueOf(lines[at])>> \o SubSeq(lines, at + 1, Len(lines)),
                            WellFormedChange)
    IN  [i \in 1..Len(listed) |-> ListedAsChange(listed[i])]

(* C29: when the Changes value spans several lines, each line of the form  *)
(* path|description after the Changes: line yields one Change of the       *)
(* parsed Decision, in order, and the other lines are ignored.             *)
C29_ChangesOverSeveralLines ==
    (parsed.done /\ \E i \in 1..Len(Split(text, NewLine)) : IsChangesLine(Split(text, NewLine)[i]))
    => parsed.decision.Changes = ListedChanges(text)

(* C30: every operation the phased orchestrator passes to the git tool    *)
(* and to the filesystem tool is one the tool's Execute accepts: no call   *)
(* recorded in the trace names an operation outside the tool's switch.     *)
C30_OperationsAccepted ==
    impl = "phased"
    => \A i \in 1..Len(trace) :
          /\ trace[i].kind = "git" => trace[i].arg \in GitOps
          /\ trace[i].kind \in {"read", "write", "backup", "restore", "mkdir", "list"}
             => trace[i].kind \in FileSystemOps

ResetDone ==
    apc \in {"prompt", "exited"} /\ lastCmd.name \in {"reject", "all", "no"} /\ lastCmd.ok

(* C31: after the git tool's reset operation has succeeded, every tracked  *)
(* file holds its content at HEAD and the index equals HEAD: no            *)
(* uncommitted modification of a tracked file is left.                     *)
C31_ResetRevertsTracked ==
    ResetDone => /\ index = head
                 /\ \A f \in Files : head[f] # Absent => work[f] = head[f]

C31_Witness ==
    /\ ResetDone /\ lastCmd.name = "reject"
    /\ \E f \in Files : snapshot[f] = "d" /\ head[f] = "h" /\ work[f] = "h"

----------------------------------------------------------------------------
(* The git tool called on its own: GitTool.Execute with any arguments on   *)
(* any workspace.                                                          *)
MaxGitCalls == 3
NoOperation == "<none>"     \* args without a string "operation"
GitArgs == {NoOperation, "diff", "commit", "reset", "add", "status", "unknown"}

(* An Execute whose default case runs the reset. *)
GitToolExecuteDefaultReset(op, h, i, w, b, io1, io2) ==
    IF op = "commit" THEN commit(h, i, w, b, io1, io2)
    ELSE IF op = "diff" THEN GitResult(io1, h, i, w, b)
    ELSE reset(h, i, w, b, io1)

(* GitTool.Execute: the type assertion on "operation", then the switch. *)
GitToolExecute(op, h, i, w, b, io1, io2) ==
    IF op = NoOperation THEN GitResult(FALSE, h, i, w, b)
    ELSE IF op = "diff" THEN GitResult(io1, h, i, w, b)
    ELSE IF op = "commit" THEN commit(h, i, w, b, io1, io2)
    ELSE IF op = "reset" THEN reset(h, i, w, b, io1)
    ELSE GitResult(FALSE, h, i, w, b)

(* One call of GitTool.Execute, recorded in the trace. *)
ExecuteGit ==
    /\ Len(trace) < MaxGitCalls
    /\ \E op \in GitArgs, io1 \in BOOLEAN, io2 \in BOOLEAN :
          LET r == GitToolExecute(op, head, index, work, backups, io1, io2)
          IN  /\ head' = r.head /\ index' = r.index /\ work' = r.work
              /\ backups' = r.backups
              /\ trace' = Append(trace, Event("git", op, r.ok, "caller", NoPath))
    /\ UNCHANGED <<llmVars, sessVars, convVars, impl, mode, now, apc, wpc, response, decision,
                   phaseIdx, changeIdx, failure, snapshot, proposed, task, completedTasks,
                   prompts, lastCmd>>

InitGit ==
    /\ backend = AnyBackend
    /\ InitCopilot

NextGit == ExecuteGit

SpecGit == InitGit /\ [][NextGit]_vars

(* C32: GitTool.Execute called without a string operation, or with an      *)
(* operation other than diff, commit and reset, returns an error and runs  *)
(* no git command: working tree, index and history are unchanged.          *)
C32_UnknownOperationRejected ==
    [][(Len(trace') = Len(trace) + 1 /\ trace'[Len(trace')].arg \notin GitOps)
       => /\ ~trace'[Len(trace')].ok
          /\ UNCHANGED <<head, index, work, backups>>]_vars

C32_Witness ==
    /\ \E i \in 1..Len(trace) : trace[i].arg = NoOperation /\ ~trace[i].ok
    /\ \E i \in 1..Len(trace) : trace[i].arg = "status" /\ ~trace[i].ok
    /\ \E f \in Files : work[f] # head[f]

----------------------------------------------------------------------------
(* Agent.ExecuteTask: the loop of LLM request and tool execution.  The     *)
(* task fixes how many actions the LLM asks for before the action with     *)
(* is_complete = true.                                                     *)
maxIterations == 10
MaxEarlierActions == 11

(* ExecuteTask up to the loop: the workspace analysis and the first two    *)
(* entries of its conversation.                                            *)
ExecuteTask ==
    /\ agent.pc = "idle"
    /\ \E plan \in 0..MaxEarlierActions, analysed \in BOOLEAN :
          agent' = IF analysed
                   THEN AgentAt("request", plan, 0, <<>>, FALSE, NoErr)
                   ELSE AgentAt("returned", plan, 0, <<>>, TRUE, "workspace analysis failed")
    /\ UNCHANGED <<parseVars, ctxDone, cbLog, mu, wk, reading, llmVars, convVars, copVars>>

(* One pass of the loop up to the tool: GetNextActionFromConversation and  *)
(* the test of action.IsComplete.                                          *)
GetNextAction ==
    /\ agent.pc = "request"
    /\ agent.i < maxIterations
    /\ \E answered \in BOOLEAN :
          agent' = IF ~answered
                   THEN [agent EXCEPT !.pc = "returned", !.failed = TRUE,
                                      !.err = "failed to get next action from LLM"]
                   ELSE IF Len(agent.results) = agent.plan
                   THEN [agent EXCEPT !.pc = "returned"]
                   ELSE [agent EXCEPT !.pc = "tool"]
    /\ UNCHANGED <<parseVars, ctxDone, cbLog, mu, wk, reading, llmVars, convVars, copVars>>

(* The rest of the pass: executeTool, its result or error appended to the  *)
(* conversation, i++.                                                      *)
ExecuteTool ==
    /\ agent.pc = "tool"
    /\ \E ok \in BOOLEAN :
          agent' = [agent EXCEPT !.pc = "request", !.i = @ + 1, !.results = Append(@, ok)]
    /\ UNCHANGED <<parseVars, ctxDone, cbLog, mu, wk, reading, llmVars, convVars, copVars>>

(* The loop condition fails. *)
IterationsExhausted ==
    /\ agent.pc = "request"
    /\ agent.i >= maxIterations
    /\ agent' = [agent EXCEPT !.pc = "returned",
                              !.err = "maximum iterations reached without completing the task"]
    /\ UNCHANGED <<parseVars, ctxDone, cbLog, mu, wk, reading, llmVars, convVars, copVars>>

InitAgent ==
    /\ backend = AnyBackend
    /\ InitLLMVars
    /\ InitConvVars
    /\ InitCopVars
    /\ InitSessVars

NextAgent ==
    \/ ExecuteTask
    \/ GetNextAction
    \/ ExecuteTool
    \/ IterationsExhausted

SpecAgent == InitAgent /\ [][NextAgent]_vars

(* C33: ExecuteTask alternates LLM request and tool execution until the    *)
(* LLM returns the action with is_complete = true and then returns         *)
(* success, after any number of earlier actions: a call in which the       *)
(* workspace analysis and every LLM request succeeded has returned nil     *)
(* after executing every earlier action.                                   *)
C33_RunsUntilComplete ==
    (agent.pc = "returned" /\ ~agent.failed)
    => /\ agent.err = NoErr
       /\ Len(agent.results) = agent.plan

RejectStep == mode = "agent" /\ apc = "choice" /\ lastCmd'.name = "reject" /\ lastCmd'.ok
RollbackStep ==
    /\ trace' # trace
    /\ Len(trace') > 0
    /\ trace'[Len(trace')] = Event("git", "reset", TRUE, "rollback", NoPath)

(* C34: the rollback of the modification phase and the reject of the agent *)
(* loop are a hard reset of the whole working tree: when it succeeds every *)
(* tracked file, named in a Change or not, edited by the task or before    *)
(* it, is back at its HEAD content, while every untracked file and every   *)
(* backup copy is left as it was.                                          *)
C34_ResetIsWholeTree ==
    [][(RejectStep \/ RollbackStep)
       => /\ \A f \in Files : work'[f] = IF Tracked(head, index, f) THEN head[f] ELSE work[f]
          /\ \A e \in backups : \E k \in backups' : k.path = e.path]_vars

C34_Witness ==
    /\ apc = "prompt" /\ lastCmd.name = "reject" /\ lastCmd.ok
    /\ \E e \in backups : e.path[2] = "f1" /\ e.content = "d"
    /\ work["f1"] = "h"
    /\ \A i \in 1..Len(proposed) : proposed[i].FilePath # "f1"

(* C35: accept commits the entire working tree: after a successful accept  *)
(* HEAD holds every file of the working tree, the untracked ones included, *)
(* and every backup copy still under .tama/backups is part of the commit.  *)
C35_AcceptCommitsEverything ==
    (mode = "agent" /\ apc = "prompt" /\ lastCmd.name = "accept" /\ lastCmd.ok)
    => /\ head = work
       /\ \A e \in backups : e.committed

C35_Witness ==
    /\ mode = "agent" /\ apc = "prompt" /\ lastCmd.name = "accept" /\ lastCmd.ok
    /\ impl = "phased"
    /\ \E e \in backups : e.committed
    /\ \E f \in Files : work[f] = "u" /\ head[f] = "u"

NoDataLine(b) == \A i \in 1..Len(b.lines) : b.lines[i][1] \in {"blank", "other"}
OllamaStreamFailed ==
    /\ provider = "Ollama" /\ streaming /\ Returned
    /\ Len(requests) >= 1 /\ requests[1].status >= 400
    /\ body.kind = "sse" /\ NoDataLine(body)

(* C36: for an Ollama provider Client.Stream sends a single request, to    *)
(* /v1/chat/completions, and does not look at the status: an answer with   *)
(* status >= 400 whose body has no data line makes the call return the     *)
(* empty text and no error, and no fallback request follows.               *)
C36_OllamaStreamIgnoresStatus ==
    /\ (provider = "Ollama" /\ streaming /\ Returned)
       => requests \in {<<Request(CompatURL, st)>> :
                           st \in {TransportError, StatusOK, StatusNotFound, StatusServerError}}
    /\ OllamaStreamFailed => inner = Result(<<>>, NoErr)

C36_Witness ==
    /\ OllamaStreamFailed /\ cpc = "returned"
    /\ requests[1].status = StatusServerError
    /\ ret = Result(<<>>, NoErr)

(* The worker applies, in the phased handler, a change to a file that does *)
(* not exist.                                                              *)
MissingFileStep ==
    /\ impl = "phased" /\ wpc = "change" /\ trace' # trace
    /\ work[decision.Changes[changeIdx].FilePath] = Absent

SystemOps == {"AddSystemMessage", "ChatHandler.AddSystemMessage"}
UpdatesAfter(k) == Cardinality({j \in (k + 1)..Len(convCalls) : convCalls[j] = "UpdateConversation"})
LastSystemCall(k) ==
    /\ convCalls[k] \in SystemOps
    /\ \A j \in (k + 1)..Len(convCalls) : convCalls[j] \notin SystemOps

(* C38: the cap evicts system entries like any other entry: once five      *)
(* UpdateConversation calls (ten entries) have followed the last           *)
(* AddSystemMessage, the conversation holds no system entry.               *)
C38_SystemEntryEvicted ==
    \A k \in 1..Len(convCalls) :
        (LastSystemCall(k) /\ UpdatesAfter(k) >= 5)
        => \A m \in 1..Len(conversation) : conversation[m].role # "system"

C38_Witness ==
    /\ Len(convCalls) >= 6
    /\ LastSystemCall(Len(convCalls) - 5)
    /\ UpdatesAfter(Len(convCalls) - 5) = 5
    /\ Len(conversation) = MaxConversation

----------------------------------------------------------------------------
(* Claims about what a run records in the conversation *)

(* The run in progress went through getInitialDecision (it is not an       *)
(* auto-fix run, which returns before the system message is added).        *)
PhasedRun ==
    /\ impl = "phased"
    /\ apc = "running"
    /\ wpc # "autofix"
    /\ (wpc = "closed" /\ decision = NoDecision)
          => failure \in {"failed to get initial decision", "invalid decision"}

(* The phases of the run in progress whose LLM call has returned. *)
PhasesDone ==
    IF decision = NoDecision THEN {}
    ELSE IF wpc = "closed" /\ failure = NoErr
         THEN PhaseIndex(decision.Phase)..Len(Phases)
         ELSE PhaseIndex(decision.Phase)..(phaseIdx - 1)

(* The pairs UpdateConversation appends for the phases from i to j. *)
RECURSIVE PairsOf(_, _, _)
PairsOf(n, i, j) ==
    IF i > j THEN <<>>
    ELSE <<Message("user", PromptText(n)), Message("assistant", PhaseReply(i))>>
         \o PairsOf(n, i + 1, j)

(* The conversation before the first prompt. *)
BeforeFirstPrompt == IF mode = "agent" THEN <<Message("system", agentModeMsg)>> ELSE <<>>

(* C39: during and after the first ProcessPrompt run of the phased         *)
(* implementation, the conversation is what it was before the run, then    *)
(* one system entry, then one (user = the prompt, assistant = the phase's  *)
(* response) pair per phase whose LLM call returned: the analysis prompt,  *)
(* the modification prompts and a failed LLM call record nothing.          *)
C39_RunRecordsSystemAndPhasePairs ==
    (PhasedRun /\ prompts = 1)
    => conversation = BeforeFirstPrompt \o <<Message("system", systemMsg)>>
                      \o PairsOf(1, PhaseIndex(decision.Phase),
                                 PhaseIndex(decision.Phase) + Cardinality(PhasesDone) - 1)

C39_Witness ==
    /\ PhasedRun
    /\ prompts = 1
    /\ wpc = "closed"
    /\ failure = "Error getting LLM response"
    /\ decision # NoDecision
    /\ decision.Phase = PhaseModification
    /\ decision.Changes # <<>>
    /\ Cardinality(PhasesDone) = 1
    /\ Len(conversation) = Len(BeforeFirstPrompt) + 3

(* C40: in the phased implementation every decision getInitialDecision     *)
(* returns has one of the four phases, a missing or unrecognised Phase     *)
(* value having left the default analysis, and ProcessPrompt never fails   *)
(* with 'Invalid phase'.                                                   *)
C40_PhaseAlwaysValid ==
    impl = "phased"
    => /\ failure # "Invalid phase"
       /\ decision # NoDecision
             => /\ isValidPhase(decision.Phase)
                /\ (response.phase = <<>> \/ ~isValidPhase(response.phase[1]))
                      => decision.Phase = PhaseAnalysis

C40_Witness ==
    /\ impl = "phased"
    /\ wpc = "handler"
    /\ response # NoResponse
    /\ response.phase = <<"bogus">>
    /\ decision # NoDecision
    /\ decision.Phase = PhaseAnalysis
    /\ phaseIdx = 1
    /\ failure = NoErr

====
